---- MODULE Spec2Model ----
(***************************************************************************)
(* The conditions-database adapter of runDB (MongoToCDBAPIAdapter): the    *)
(* detector trees kept in DetectorWrapper documents, the conditions        *)
(* attached to detectors, and the handlers that read and change them.      *)
(*                                                                         *)
(* Python values are modelled as follows.                                  *)
(*   str       a sequence of one-character strings, "A/B" = <<"A","/","B">>*)
(*   None      the constant None (a sequence no str can equal)             *)
(*   other     NotStr stands for an argument that is neither str nor None  *)
(*   datetime  [kind |-> "datetime", t |-> <<Y,M,D,h,m,s>>, us |-> n]      *)
(*   date str  [kind |-> "str", parts |-> the numeric fields of the text]  *)
(*   a stored timestamp is the tuple <<Y,M,D,h,m,s>>                       *)
(* A handler is an operator from the store (and its arguments) to the new  *)
(* store and the outcome of the call; the action of the handler applies it.*)
(* wrappers is the DetectorWrapper collection, result the last call that   *)
(* returned, calls the calls in flight when callers run concurrently, now  *)
(* the second the clock of the process shows.                              *)
(***************************************************************************)
EXTENDS Integers, Sequences, FiniteSets, TLC

VARIABLES wrappers, result, calls, now

vars == <<wrappers, result, calls, now>>

(***************************************************************************)
(* Bounds of the model.                                                    *)
(***************************************************************************)
MaxWrappers == 2
MaxNodes == 3
MaxOwnNodes == 4
MaxSecond == 2
MaxConds == 2

(***************************************************************************)
(* Python values.                                                          *)
(***************************************************************************)
None == <<"None">>
NotStr == <<"int">>

SP == " "
SL == "/"

(***************************************************************************)
(* helpers.py                                                              *)
(***************************************************************************)
validate_str(x) == x # None /\ x # NotStr

validate_path(x) == x # None /\ x # NotStr

RECURSIVE lstrip(_, _)
lstrip(s, c) == IF s # <<>> /\ Head(s) = c THEN lstrip(Tail(s), c) ELSE s

RECURSIVE rstrip(_, _)
rstrip(s, c) ==
  IF s # <<>> /\ s[Len(s)] = c THEN rstrip(SubSeq(s, 1, Len(s) - 1), c) ELSE s

strip(s, c) == rstrip(lstrip(s, c), c)

sanitize_str(s) == strip(s, SP)

sanitize_path(s) == strip(sanitize_str(s), SL)

\* str.split(sep): the pieces between the separators, "" splits into [""]
RECURSIVE split(_, _)
split(s, c) ==
  IF \A i \in 1..Len(s) : s[i] # c
    THEN <<s>>
    ELSE LET k == CHOOSE i \in 1..Len(s) :
                    s[i] = c /\ \A j \in 1..(i - 1) : s[j] # c
         IN <<SubSeq(s, 1, k - 1)>> \o split(SubSeq(s, k + 1, Len(s)), c)

split_detector_names(detector_id) == split(sanitize_path(detector_id), SL)

\* "/".join(names)
RECURSIVE join(_)
join(names) ==
  IF names = <<>> THEN <<>>
  ELSE IF Len(names) = 1 THEN names[1]
  ELSE names[1] \o <<SL>> \o join(Tail(names))

(***************************************************************************)
(* Documents.  A Detector is [name, subdetectors, conditions]; a           *)
(* DetectorWrapper is [id, name, detector], detector being <<>> (no        *)
(* embedded document) or <<d>>.                                            *)
(***************************************************************************)
Detector(name) == [name |-> name, subdetectors |-> <<>>, conditions |-> <<>>]

DetectorWrapper(id, name, det) == [id |-> id, name |-> name, detector |-> det]

\* the ObjectId of a new document: one that no stored document carries
NewId(ws) ==
  CHOOSE i \in 1..(Len(ws) + 1) :
    /\ \A k \in 1..Len(ws) : ws[k].id # i
    /\ \A j \in 1..(i - 1) : \E k \in 1..Len(ws) : ws[k].id = j

RemoveAt(s, i) == SubSeq(s, 1, i - 1) \o SubSeq(s, i + 1, Len(s))

\* the node reached from d by the child indices idx
RECURSIVE NodeAt(_, _)
NodeAt(d, idx) ==
  IF idx = <<>> THEN d ELSE NodeAt(d.subdetectors[Head(idx)], Tail(idx))

\* d with the node at idx replaced by n
RECURSIVE SetAt(_, _, _)
SetAt(d, idx, n) ==
  IF idx = <<>> THEN n
  ELSE [d EXCEPT !.subdetectors[Head(idx)] = SetAt(@, Tail(idx), n)]

RECURSIVE SumSeq(_)
SumSeq(s) == IF s = <<>> THEN 0 ELSE Head(s) + SumSeq(Tail(s))

RECURSIVE NodeCount(_)
NodeCount(d) ==
  1 + SumSeq([i \in 1..Len(d.subdetectors) |-> NodeCount(d.subdetectors[i])])

RECURSIVE CondCount(_)
CondCount(d) ==
  Len(d.conditions)
    + SumSeq([i \in 1..Len(d.subdetectors) |-> CondCount(d.subdetectors[i])])

TotalNodes(ws) ==
  SumSeq([i \in 1..Len(ws) |->
            IF ws[i].detector = <<>> THEN 0 ELSE NodeCount(ws[i].detector[1])])

TotalConds(ws) ==
  SumSeq([i \in 1..Len(ws) |->
            IF ws[i].detector = <<>> THEN 0 ELSE CondCount(ws[i].detector[1])])

(***************************************************************************)
(* The outcome of a call.  value is a sequence: <<>> stands for a None     *)
(* return, <<v>> for a single returned dictionary, a longer sequence for a *)
(* returned list.  path is the detector path an error message reports.     *)
(***************************************************************************)
Ok(v) == [outcome |-> "ok", err |-> "", path |-> <<>>, value |-> v]

Raise(exc, err, path) ==
  [outcome |-> exc, err |-> err, path |-> path, value |-> <<>>]

IsError(r) == r.outcome # "ok"

(***************************************************************************)
(* Resolution of wrappers and detectors.                                   *)
(***************************************************************************)
\* DetectorWrapper.objects(name=name): the positions of the matching documents
WrappersNamed(ws, name) == {i \in 1..Len(ws) : ws[i].name = name}

\* QuerySet.get / EmbeddedDocumentList.get over a set of matching positions
GetOne(matches) ==
  IF matches = {} THEN Raise("DoesNotExist", "NotFound", <<>>)
  ELSE IF Cardinality(matches) > 1
    THEN Raise("MultipleObjectsReturned", "Multiple", <<>>)
  ELSE Ok(<<CHOOSE i \in matches : TRUE>>)

\* __get_wrapper: value is <<position of the wrapper in the collection>>
get_wrapper(ws, wrapper_id) ==
  IF ~validate_str(wrapper_id) THEN Raise("ValueError", "InvalidArgumentType", <<>>)
  ELSE LET detector_names == split_detector_names(sanitize_path(wrapper_id))
           r == GetOne(WrappersNamed(ws, detector_names[1]))
       IN IF r.outcome = "DoesNotExist"
            THEN Raise("ValueError", "NotFound", detector_names[1])
            ELSE r

\* __get_subdetector: value is <<position of the child>>, <<>> for None
get_subdetector_first(detector, sub_name) ==
  IF detector.subdetectors = <<>> THEN Ok(<<>>) ELSE Ok(<<1>>)

get_subdetector(detector, sub_name) ==
  LET r == GetOne({i \in 1..Len(detector.subdetectors) :
                     detector.subdetectors[i].name = sub_name})
  IN IF r.outcome = "DoesNotExist" THEN Ok(<<>>) ELSE r

\* the loop of __get_detector over detector_names[1:]: idx is the position of
\* the current detector under the root, path the text built so far
RECURSIVE get_detector_walk(_, _, _, _)
get_detector_walk(root, idx, names, path) ==
  IF names = <<>> THEN Ok(idx)
  ELSE LET r == get_subdetector(NodeAt(root, idx), Head(names))
           path1 == path \o <<SL>> \o Head(names)
       IN IF IsError(r) THEN r
          ELSE IF r.value = <<>>
            THEN Raise("ValueError", "NotFound", sanitize_path(path1))
          ELSE get_detector_walk(root, idx \o r.value, Tail(names), path1)

\* __get_detector: value is the child indices leading from the root to the node
get_detector_node(detector_wrapper, detector_id) ==
  IF ~validate_path(detector_id) THEN Raise("TypeError", "InvalidPath", <<>>)
  ELSE get_detector_walk(detector_wrapper.detector[1], <<>>,
                         Tail(split_detector_names(detector_id)), <<>>)

\* Document.save() of a wrapper read as doc and changed in memory to det:
\* an update of the changed fields by _id, as an upsert
save(ws, doc, det) ==
  LET at == {i \in 1..Len(ws) : ws[i].id = doc.id}
  IN IF at # {}
       THEN [ws EXCEPT ![CHOOSE i \in at : TRUE].detector = det]
     ELSE IF det = doc.detector THEN ws
     ELSE LET subs == det[1].subdetectors
          IN Append(ws, DetectorWrapper(doc.id, None,
               IF subs = <<>> THEN <<>>
               ELSE <<[name |-> None, subdetectors |-> subs,
                       conditions |-> <<>>]>>))

(***************************************************************************)
(* get_detector                                                            *)
(***************************************************************************)
get_detector(ws, detector_id) ==
  IF detector_id = <<>> THEN Raise("ValueError", "InvalidValue", <<>>)
  ELSE IF ~validate_str(detector_id)
    THEN Raise("TypeError", "InvalidArgumentType", <<>>)
  ELSE LET id == sanitize_path(detector_id)
           w == get_wrapper(ws, id)
       IN IF IsError(w) THEN w
          ELSE LET d == get_detector_node(ws[w.value[1]], id)
               IN IF d.outcome = "ValueError"
                    THEN Raise("ValueError", "NotFound", id)
                  ELSE IF IsError(d) THEN d
                  ELSE Ok(<<NodeAt(ws[w.value[1]].detector[1], d.value)>>)

(***************************************************************************)
(* list_detectors: value is the list of the returned paths                 *)
(***************************************************************************)
\* str(name)
StrOf(name) == IF name = None THEN <<"N", "o", "n", "e">> ELSE name

list_detectors(ws, parent_id) ==
  IF parent_id = None \/ parent_id = <<>>
    THEN IF \E i \in 1..Len(ws) : ws[i].detector = <<>>
           THEN Raise("AttributeError", "NoDetector", <<>>)
           ELSE Ok([i \in 1..Len(ws) |-> StrOf(ws[i].detector[1].name)])
  ELSE IF ~validate_path(parent_id)
    THEN Raise("TypeError", "InvalidArgumentType", <<>>)
  ELSE LET w == get_wrapper(ws, parent_id)
       IN IF w.outcome = "ValueError"
            THEN Raise("ValueError", "NotFound", parent_id)
          ELSE IF IsError(w) THEN w
          ELSE LET d == get_detector_node(ws[w.value[1]], parent_id)
               IN IF IsError(d) THEN d
                  ELSE LET detector == NodeAt(ws[w.value[1]].detector[1], d.value)
                           path == sanitize_path(parent_id)
                       IN Ok([i \in 1..Len(detector.subdetectors) |->
                                path \o <<SL>> \o
                                  StrOf(detector.subdetectors[i].name)])

(***************************************************************************)
(* add_detector.  A handler returns [store, res].                          *)
(***************************************************************************)
\* __add_wrapper: the store with the new wrapper, or the store itself (None)
add_wrapper_unchecked(ws, name) ==
  Append(ws, DetectorWrapper(NewId(ws), name, <<>>))

add_wrapper(ws, name) ==
  IF WrappersNamed(ws, name) = {}
    THEN Append(ws, DetectorWrapper(NewId(ws), name, <<>>))
    ELSE ws

add_detector(ws, name, parent_id) ==
  IF ~validate_str(name)
    THEN [store |-> ws, res |-> Raise("TypeError", "InvalidArgumentType", <<>>)]
  ELSE IF name = <<>>
    THEN [store |-> ws, res |-> Raise("ValueError", "InvalidValue", <<>>)]
  ELSE IF \E i \in 1..Len(name) : name[i] = SL
    THEN [store |-> ws, res |-> Raise("ValueError", "InvalidValue", <<>>)]
  ELSE
    LET nm == sanitize_str(name) IN
    IF parent_id = None \/ parent_id = <<>>
      THEN LET ws1 == add_wrapper(ws, nm)
           IN IF ws1 # ws
                THEN [store |-> [ws1 EXCEPT ![Len(ws1)].detector = <<Detector(nm)>>],
                      res |-> Ok(<<>>)]
                ELSE [store |-> ws,
                      res |-> Raise("ValueError", "AlreadyExists", nm)]
    ELSE IF ~validate_path(parent_id)
      THEN [store |-> ws, res |-> Raise("TypeError", "InvalidArgumentType", <<>>)]
    ELSE
      LET pid == sanitize_path(parent_id)
          detector_names == split_detector_names(pid)
          w == get_wrapper(ws, detector_names[1])
      IN IF IsError(w)
           THEN [store |-> ws,
                 res |-> Raise("ValueError", "NotFound", detector_names[1])]
         ELSE
           LET doc == ws[w.value[1]]
               d == get_detector_node(doc, pid)
           IN IF IsError(d)
                THEN [store |-> ws, res |-> Raise("ValueError", "NotFound", pid)]
              ELSE
                LET parent == NodeAt(doc.detector[1], d.value)
                    g == GetOne({i \in 1..Len(parent.subdetectors) :
                                   parent.subdetectors[i].name = nm})
                IN IF g.outcome = "DoesNotExist"
                     THEN [store |->
                             save(ws, doc,
                                  <<SetAt(doc.detector[1], d.value,
                                      [parent EXCEPT !.subdetectors =
                                         Append(@, Detector(nm))])>>),
                           res |-> Ok(<<>>)]
                   ELSE IF IsError(g) THEN [store |-> ws, res |-> g]
                   ELSE [store |-> ws,
                         res |-> Raise("ValueError", "AlreadyExists",
                                       pid \o <<SL>> \o nm)]

(***************************************************************************)
(* remove_detector                                                         *)
(***************************************************************************)
\* __remove_wrapper: the wrapper is looked up again and deleted
remove_wrapper(ws, wrapper_id) ==
  LET w == get_wrapper(ws, wrapper_id)
  IN IF IsError(w)
       THEN [store |-> ws, res |-> Raise("ValueError", "NotFound", wrapper_id)]
       ELSE [store |-> RemoveAt(ws, w.value[1]), res |-> Ok(<<>>)]

\* the loop that finds the subdetector and removes it from the list
PopFirstNamed_head(subdetectors, name) ==
  IF \E i \in 1..Len(subdetectors) : subdetectors[i].name = name
    THEN Tail(subdetectors)
    ELSE subdetectors

PopFirstNamed(subdetectors, name) ==
  LET hits == {i \in 1..Len(subdetectors) : subdetectors[i].name = name}
  IN IF hits = {} THEN subdetectors
     ELSE RemoveAt(subdetectors,
                   CHOOSE i \in hits : \A j \in hits : i <= j)

remove_detector(ws, detector_id) ==
  IF ~validate_str(detector_id)
    THEN [store |-> ws, res |-> Raise("TypeError", "InvalidArgumentType", <<>>)]
  ELSE IF detector_id = <<>>
    THEN [store |-> ws, res |-> Raise("ValueError", "InvalidValue", <<>>)]
  ELSE
    LET id == sanitize_path(detector_id)
        w == get_wrapper(ws, id)
    IN IF IsError(w)
         THEN [store |-> ws, res |-> Raise("ValueError", "NotFound", id)]
       ELSE
         LET doc == ws[w.value[1]]
             detector_names == split_detector_names(id)
             \* a root detector: the wrapper is deleted, and the call goes on
             rw == IF Len(detector_names) < 2
                     THEN remove_wrapper(ws, detector_names[1])
                     ELSE [store |-> ws, res |-> Ok(<<>>)]
         IN IF IsError(rw.res)
              THEN [store |-> ws,
                    res |-> Raise("ValueError", "NotFound", detector_names[1])]
            ELSE
              LET path == sanitize_path(
                            join(SubSeq(detector_names, 1,
                                        Len(detector_names) - 1)))
                  d == get_detector_node(doc, path)
              IN IF IsError(d) THEN [store |-> rw.store, res |-> d]
                 ELSE
                   LET detector == NodeAt(doc.detector[1], d.value)
                       popped == PopFirstNamed(detector.subdetectors,
                                   detector_names[Len(detector_names)])
                   IN [store |->
                         save(rw.store, doc,
                              <<SetAt(doc.detector[1], d.value,
                                  [detector EXCEPT !.subdetectors = popped])>>),
                       res |-> Ok(<<>>)]

(***************************************************************************)
(* Timestamps.                                                             *)
(***************************************************************************)
NoneT == [kind |-> "none"]
StrT(parts) == [kind |-> "str", parts |-> parts]
DateTime(t, us) == [kind |-> "datetime", t |-> t, us |-> us]

\* helpers.validate_str / validate_datetime / validate_interval_parameters
\* applied to a timestamp argument
validate_str_t(x) == x.kind = "str"

validate_datetime(x) == x.kind = "datetime"

validate_interval_parameters(x) == x.kind \in {"datetime", "str"}

IsLeap(y) == (y % 4 = 0 /\ y % 100 # 0) \/ y % 400 = 0

DaysIn(y, m) ==
  IF m = 2 THEN (IF IsLeap(y) THEN 29 ELSE 28)
  ELSE IF m \in {4, 6, 9, 11} THEN 30 ELSE 31

\* the lower and upper limit of the k-th field of a date text
FieldOk(parts, k) ==
  LET v == parts[k]
  IN CASE k = 1 -> v >= 1 /\ v <= 9999
       [] k = 2 -> v >= 1 /\ v <= 12
       [] k = 3 -> v >= 1 /\ v <= DaysIn(parts[1], parts[2])
       [] k = 4 -> v >= 0 /\ v <= 23
       [] OTHER -> v >= 0 /\ v <= 59

\* strptime defaults of the fields a format leaves out
FieldDefault(k) == IF k \in {2, 3} THEN 1 ELSE 0

\* convert_date: the first of the six formats that parses the text; the
\* format with k fields parses a text of exactly k well-formed fields
convert_date(parts) ==
  IF Len(parts) \in 1..6 /\ \A k \in 1..Len(parts) : FieldOk(parts, k)
    THEN Ok(<<[k \in 1..6 |-> IF k <= Len(parts) THEN parts[k]
                                ELSE FieldDefault(k)]>>)
    ELSE Raise("ValueError", "InvalidFormat", <<>>)

\* the conversion every handler applies to a timestamp argument: value is
\* <<t>>, or <<>> when the argument is left as it is (None)
Normalise_keep_microseconds(x) ==
  IF validate_str_t(x) THEN convert_date(x.parts)
  ELSE IF validate_datetime(x) THEN Ok(<<x.t \o <<x.us>>>>)
  ELSE Ok(<<>>)

Normalise(x) ==
  IF validate_str_t(x) THEN convert_date(x.parts)
  ELSE IF validate_datetime(x) THEN Ok(<<x.t>>)
  ELSE Ok(<<>>)

\* a <= b on datetimes
RECURSIVE LexLeq(_, _)
LexLeq(a, b) ==
  IF a = <<>> THEN TRUE
  ELSE IF Head(a) # Head(b) THEN Head(a) < Head(b)
  ELSE LexLeq(Tail(a), Tail(b))

TsLeq(a, b) == LexLeq(a, b)

TsGt(a, b) == ~LexLeq(a, b)

(***************************************************************************)
(* Conditions.                                                             *)
(***************************************************************************)
Condition(name, tag, values, type, collected_at, valid_since, valid_until) ==
  [name |-> name, tag |-> tag, values |-> values, type |-> type,
   collected_at |-> collected_at, valid_since |-> valid_since,
   valid_until |-> valid_until]

\* EmbeddedDocumentList.filter(name=name): the positions of the matches
FilterByName(conds, name) == {i \in 1..Len(conds) : conds[i].name = name}

\* EmbeddedDocumentList.get(name=name, tag=tag): the positions of the matches
FilterByNameTag(conds, name, tag) ==
  {i \in 1..Len(conds) : conds[i].name = name /\ conds[i].tag = tag}

\* EmbeddedDocumentList.get(name=name, collected_at=collected_at)
FilterByNameDate(conds, name, collected_at) ==
  {i \in 1..Len(conds) :
     conds[i].name = name /\ conds[i].collected_at = collected_at}

\* the subsequence of s at the positions in S
RECURSIVE SelectAt(_, _, _)
SelectAt(s, S, i) ==
  IF i > Len(s) THEN <<>>
  ELSE (IF i \in S THEN <<s[i]>> ELSE <<>>) \o SelectAt(s, S, i + 1)

\* the resolution every condition handler starts with: value is
\* <<position of the wrapper, child indices of the detector>>
resolve(ws, detector_id) ==
  LET w == get_wrapper(ws, detector_id)
  IN IF IsError(w) THEN Raise("ValueError", "NotFound", detector_id)
     ELSE LET d == get_detector_node(ws[w.value[1]], detector_id)
          IN IF IsError(d) THEN Raise("ValueError", "NotFound", detector_id)
             ELSE Ok(<<w.value[1], d.value>>)

Resolved(ws, r) == NodeAt(ws[r.value[1]].detector[1], r.value[2])

get_conditions_of_root(ws, detector_id) ==
  IF ~validate_str(detector_id)
    THEN Raise("TypeError", "InvalidArgumentType", <<>>)
  ELSE LET r == resolve(ws, detector_id)
       IN IF IsError(r) THEN r ELSE Ok(ws[r.value[1]].detector[1].conditions)

get_conditions(ws, detector_id) ==
  IF ~validate_str(detector_id)
    THEN Raise("TypeError", "InvalidArgumentType", <<>>)
  ELSE LET r == resolve(ws, detector_id)
       IN IF IsError(r) THEN r ELSE Ok(Resolved(ws, r).conditions)

\* EmbeddedDocumentList.filter(tag=tag): the positions of the matches
FilterByTag(conds, tag) == {i \in 1..Len(conds) : conds[i].tag = tag}

\* get_conditions_by_name returning the first match only
get_conditions_by_name_first(ws, detector_id, name) ==
  IF ~validate_str(detector_id)
    THEN Raise("TypeError", "InvalidArgumentType", <<>>)
  ELSE IF ~validate_str(name)
    THEN Raise("TypeError", "InvalidArgumentType", <<>>)
  ELSE
    LET nm == sanitize_str(name)
        r == resolve(ws, detector_id)
    IN IF IsError(r) THEN r
       ELSE LET conds == Resolved(ws, r).conditions
                g == FilterByName(conds, nm)
            IN IF g = {} THEN Ok(<<>>)
               ELSE Ok(<<conds[CHOOSE i \in g : \A j \in g : i <= j]>>)

get_conditions_by_name(ws, detector_id, name) ==
  IF ~validate_str(detector_id)
    THEN Raise("TypeError", "InvalidArgumentType", <<>>)
  ELSE IF ~validate_str(name)
    THEN Raise("TypeError", "InvalidArgumentType", <<>>)
  ELSE
    LET nm == sanitize_str(name)
        r == resolve(ws, detector_id)
    IN IF IsError(r) THEN r
       ELSE LET conds == Resolved(ws, r).conditions
            IN Ok(SelectAt(conds, FilterByName(conds, nm), 1))

get_conditions_by_tag(ws, detector_id, tag) ==
  IF ~validate_str(detector_id)
    THEN Raise("TypeError", "InvalidArgumentType", <<>>)
  ELSE IF ~validate_str(tag)
    THEN Raise("TypeError", "InvalidArgumentType", <<>>)
  ELSE
    LET tg == sanitize_str(tag)
        r == resolve(ws, detector_id)
    IN IF IsError(r) THEN r
       ELSE LET conds == Resolved(ws, r).conditions
            IN Ok(SelectAt(conds, FilterByTag(conds, tg), 1))

\* the input sanitization of a (name, tag) lookup
NameTagKey_unsanitized(name, tag) == <<name, tag>>

NameTagKey(name, tag) == <<sanitize_str(name), sanitize_str(tag)>>

get_condition_by_name_and_tag(ws, detector_id, name, tag) ==
  IF ~validate_str(detector_id)
    THEN Raise("TypeError", "InvalidArgumentType", <<>>)
  ELSE IF ~(validate_str(name) /\ validate_str(tag))
    THEN Raise("TypeError", "InvalidArgumentType", <<>>)
  ELSE
    LET nm == NameTagKey(name, tag)[1]
        tg == NameTagKey(name, tag)[2]
        r == resolve(ws, detector_id)
    IN IF IsError(r) THEN r
       ELSE LET conds == Resolved(ws, r).conditions
                g == GetOne(FilterByNameTag(conds, nm, tg))
            IN IF g.outcome = "DoesNotExist" THEN Ok(<<>>)
               ELSE IF IsError(g) THEN g
               ELSE Ok(<<conds[g.value[1]]>>)

get_condition_by_name_and_collection_date(ws, detector_id, name, collected_at) ==
  IF ~validate_str(detector_id)
    THEN Raise("TypeError", "InvalidArgumentType", <<>>)
  ELSE IF ~(validate_str(name) /\ validate_interval_parameters(collected_at))
    THEN Raise("TypeError", "InvalidArgumentType", <<>>)
  ELSE
    LET nm == sanitize_str(name)
        ca == Normalise(collected_at)
    IN IF IsError(ca) THEN ca
       ELSE LET r == resolve(ws, detector_id)
            IN IF IsError(r) THEN r
               ELSE LET conds == Resolved(ws, r).conditions
                        g == GetOne(FilterByNameDate(conds, nm, ca.value[1]))
                    IN IF g.outcome = "DoesNotExist" THEN Ok(<<>>)
                       ELSE IF IsError(g) THEN g
                       ELSE Ok(<<conds[g.value[1]]>>)

\* the test of the loop over the conditions of the requested name
InValidity_overlap(c, start, end) ==
  IF end = <<>>
    THEN TsLeq(c.valid_since, start) /\ TsLeq(start, c.valid_until)
    ELSE TsLeq(c.valid_since, end[1]) /\ TsLeq(start, c.valid_until)

InValidity(c, start, end) ==
  /\ TsLeq(c.valid_since, start) /\ TsLeq(start, c.valid_until)
  /\ end # <<>> => (TsLeq(c.valid_since, end[1]) /\ TsLeq(end[1], c.valid_until))

get_conditions_by_name_and_validity(ws, detector_id, name, start_date, end_date) ==
  IF ~validate_str(detector_id)
    THEN Raise("TypeError", "InvalidArgumentType", <<>>)
  ELSE IF ~(/\ validate_str(name)
            /\ validate_interval_parameters(start_date)
            /\ (validate_interval_parameters(end_date) \/ end_date = NoneT))
    THEN Raise("TypeError", "InvalidArgumentType", <<>>)
  ELSE
    LET nm == sanitize_str(name)
        sd == Normalise(start_date)
        ed == Normalise(end_date)
    IN IF IsError(sd) THEN sd
       ELSE IF IsError(ed) THEN ed
       ELSE IF ed.value # <<>> /\ TsGt(sd.value[1], ed.value[1])
         THEN Raise("ValueError", "InvalidInterval", <<>>)
       ELSE
         LET r == resolve(ws, detector_id)
         IN IF IsError(r) THEN r
            ELSE LET conds == Resolved(ws, r).conditions
                     result_list ==
                       {i \in FilterByName(conds, nm) :
                          InValidity(conds[i], sd.value[1], ed.value)}
                 IN Ok(SelectAt(conds, result_list, 1))

(***************************************************************************)
(* add_condition                                                           *)
(***************************************************************************)
\* add_condition with the write made before the test for the (name, tag) key
add_condition_write_first(ws, detector_id, name, tag, values, condition_type, collected_at, valid_since, valid_until) ==
  LET vu == Normalise(valid_until)
      vs == Normalise(valid_since)
      ca == Normalise(collected_at)
      r == IF validate_path(detector_id) THEN resolve(ws, detector_id)
           ELSE Raise("TypeError", "InvalidArgumentType", <<>>)
  IN IF IsError(r) THEN [store |-> ws, res |-> r]
     ELSE IF IsError(vu) \/ IsError(vs) \/ IsError(ca) \/ ~validate_str(name)
                \/ vs.value = <<>> \/ vu.value = <<>> \/ ca.value = <<>>
       THEN [store |-> ws, res |-> Raise("TypeError", "InvalidArgumentType", <<>>)]
     ELSE LET doc == ws[r.value[1]]
              detector == Resolved(ws, r)
              condition ==
                Condition(sanitize_str(name), sanitize_str(tag), values,
                          condition_type, ca.value[1], vs.value[1], vu.value[1])
              written ==
                save(ws, doc,
                     <<SetAt(doc.detector[1], r.value[2],
                         [detector EXCEPT !.conditions = Append(@, condition)])>>)
          IN IF TsGt(vs.value[1], vu.value[1])
               THEN [store |-> written,
                     res |-> Raise("ValueError", "InvalidInterval", <<>>)]
             ELSE IF FilterByNameTag(detector.conditions, sanitize_str(name),
                                     sanitize_str(tag)) # {}
               THEN [store |-> written,
                     res |-> Raise("ValueError", "AlreadyExists", <<>>)]
             ELSE [store |-> written, res |-> Ok(<<>>)]

add_condition(ws, detector_id, name, tag, values, condition_type, collected_at, valid_since, valid_until) ==
  IF detector_id = <<>> \/ name = <<>> \/ tag = <<>> \/ values = <<>>
       \/ values = None
    THEN [store |-> ws, res |-> Raise("TypeError", "InvalidValue", <<>>)]
  ELSE IF ~(validate_path(detector_id) /\ validate_str(tag) /\ validate_str(name))
    THEN [store |-> ws, res |-> Raise("TypeError", "InvalidArgumentType", <<>>)]
  ELSE IF ~(/\ validate_interval_parameters(valid_since) \/ valid_since = NoneT
            /\ validate_interval_parameters(valid_until) \/ valid_until = NoneT
            /\ validate_interval_parameters(collected_at) \/ collected_at = NoneT)
    THEN [store |-> ws, res |-> Raise("TypeError", "InvalidArgumentType", <<>>)]
  ELSE IF ~validate_str(condition_type) /\ condition_type # None
    THEN [store |-> ws, res |-> Raise("TypeError", "InvalidArgumentType", <<>>)]
  ELSE
    LET vu == Normalise(valid_until)
        vs == Normalise(valid_since)
        ca == Normalise(collected_at)
    IN IF IsError(vu) THEN [store |-> ws, res |-> vu]
       ELSE IF IsError(vs) THEN [store |-> ws, res |-> vs]
       ELSE IF IsError(ca) THEN [store |-> ws, res |-> ca]
       ELSE IF vs.value = <<>> \/ vu.value = <<>>
         \* None > datetime
         THEN [store |-> ws, res |-> Raise("TypeError", "InvalidArgumentType", <<>>)]
       ELSE IF TsGt(vs.value[1], vu.value[1])
         THEN [store |-> ws, res |-> Raise("ValueError", "InvalidInterval", <<>>)]
       ELSE
         LET r == resolve(ws, detector_id)
         IN IF IsError(r) THEN [store |-> ws, res |-> r]
            ELSE
              LET g == get_condition_by_name_and_tag(ws, detector_id, name, tag)
              IN IF IsError(g) THEN [store |-> ws, res |-> g]
                 ELSE IF g.value # <<>>
                   THEN [store |-> ws,
                         res |-> Raise("ValueError", "AlreadyExists", <<>>)]
                 ELSE
                   LET doc == ws[r.value[1]]
                       detector == Resolved(ws, r)
                       condition ==
                         Condition(sanitize_str(name), sanitize_str(tag), values,
                                   condition_type,
                                   IF ca.value = <<>> THEN None ELSE ca.value[1],
                                   vs.value[1], vu.value[1])
                   IN [store |->
                         save(ws, doc,
                              <<SetAt(doc.detector[1], r.value[2],
                                  [detector EXCEPT !.conditions =
                                     Append(@, condition)])>>),
                       res |-> Ok(<<>>)]

(***************************************************************************)
(* update_condition_by_name_and_tag                                        *)
(***************************************************************************)
\* the test `type is not None` that guards the assignment of the type: type
\* is the builtin of that name, not the argument condition_type
TypeIsNotNone(condition_type) == TRUE

\* update_condition_by_name_and_tag with the detector looked up before the
\* test of the interval
update_condition_lookup_first(ws, detector_id, name, tag, condition_type, valid_since, valid_until) ==
  LET r == IF validate_str(detector_id) THEN resolve(ws, detector_id)
           ELSE Raise("TypeError", "InvalidArgumentType", <<>>)
      vu == Normalise(valid_until)
      vs == Normalise(valid_since)
  IN IF IsError(r) THEN [store |-> ws, res |-> r]
     ELSE IF ~(validate_str(condition_type) \/ condition_type = None)
               \/ ~validate_str(name) \/ ~validate_str(tag)
       THEN [store |-> ws, res |-> Raise("TypeError", "InvalidArgumentType", <<>>)]
     ELSE IF IsError(vu) THEN [store |-> ws, res |-> vu]
     ELSE IF IsError(vs) THEN [store |-> ws, res |-> vs]
     ELSE IF vu.value # <<>> /\ vs.value # <<>> /\ TsGt(vs.value[1], vu.value[1])
       THEN [store |-> ws, res |-> Raise("ValueError", "InvalidInterval", <<>>)]
     ELSE
       LET doc == ws[r.value[1]]
           detector == Resolved(ws, r)
           g == GetOne(FilterByNameTag(detector.conditions, sanitize_str(name),
                                       sanitize_str(tag)))
       IN IF IsError(g)
            THEN [store |-> ws, res |-> Raise("ValueError", "NotFound", <<>>)]
          ELSE
            LET k == g.value[1]
                c1 == [detector.conditions[k] EXCEPT !.type =
                         IF validate_str(condition_type)
                           THEN sanitize_str(condition_type) ELSE condition_type]
                c2 == IF vs.value # <<>>
                        THEN [c1 EXCEPT !.valid_since = vs.value[1]] ELSE c1
                c3 == IF vu.value # <<>>
                        THEN [c2 EXCEPT !.valid_until = vu.value[1]] ELSE c2
            IN [store |->
                  save(ws, doc,
                       <<SetAt(doc.detector[1], r.value[2],
                           [detector EXCEPT !.conditions[k] = c3])>>),
                res |-> Ok(<<>>)]

update_condition_by_name_and_tag(ws, detector_id, name, tag, condition_type, valid_since, valid_until) ==
  IF ~validate_str(detector_id)
    THEN [store |-> ws, res |-> Raise("TypeError", "InvalidArgumentType", <<>>)]
  ELSE IF ~(/\ validate_interval_parameters(valid_since) \/ valid_since = NoneT
            /\ validate_interval_parameters(valid_until) \/ valid_until = NoneT
            /\ validate_str(condition_type) \/ condition_type = None
            /\ validate_str(name)
            /\ validate_str(tag))
    THEN [store |-> ws, res |-> Raise("TypeError", "InvalidArgumentType", <<>>)]
  ELSE
    LET vu == Normalise(valid_until)
        vs == Normalise(valid_since)
    IN IF IsError(vu) THEN [store |-> ws, res |-> vu]
       ELSE IF IsError(vs) THEN [store |-> ws, res |-> vs]
       ELSE IF vu.value # <<>> /\ vs.value # <<>> /\ TsGt(vs.value[1], vu.value[1])
         THEN [store |-> ws, res |-> Raise("ValueError", "InvalidInterval", <<>>)]
       ELSE
         LET nm == sanitize_str(name)
             tg == sanitize_str(tag)
             ty == IF validate_str(condition_type)
                     THEN sanitize_str(condition_type) ELSE condition_type
             r == resolve(ws, detector_id)
         IN IF IsError(r) THEN [store |-> ws, res |-> r]
            ELSE
              LET doc == ws[r.value[1]]
                  detector == Resolved(ws, r)
                  g == GetOne(FilterByNameTag(detector.conditions, nm, tg))
              IN IF g.outcome = "DoesNotExist"
                   THEN [store |-> ws,
                         res |-> Raise("ValueError", "NotFound", <<>>)]
                 ELSE IF IsError(g) THEN [store |-> ws, res |-> g]
                 ELSE
                   LET k == g.value[1]
                       c0 == detector.conditions[k]
                       c1 == IF TypeIsNotNone(condition_type)
                               THEN [c0 EXCEPT !.type = ty] ELSE c0
                       c2 == IF vs.value # <<>>
                               THEN [c1 EXCEPT !.valid_since = vs.value[1]] ELSE c1
                       c3 == IF vu.value # <<>>
                               THEN [c2 EXCEPT !.valid_until = vu.value[1]] ELSE c2
                   IN [store |->
                         save(ws, doc,
                              <<SetAt(doc.detector[1], r.value[2],
                                  [detector EXCEPT !.conditions[k] = c3])>>),
                       res |-> Ok(<<>>)]

(***************************************************************************)
(* The run database: fills, runs, files and their attributes.  Fill and    *)
(* Run are embedded documents that belong to no document, the adapter      *)
(* defines none of the lookups __get_fill, __get_run and __get_file it     *)
(* calls, and no statement that writes a File is reached: these handlers   *)
(* read and write no collection, their outcome is all they produce.        *)
(***************************************************************************)
\* fill.save() / run.save(): save() of an embedded document of no document
embedded_save == Raise("AttributeError", "NoSave", <<>>)

\* self.__get_fill / self.__get_run / self.__get_file: no such method
private_lookup == Raise("AttributeError", "NoMethod", <<>>)

\* the free names valid_until, get_fill, get_run and fill_id the handlers
\* read: bound nowhere
undefined_name == Raise("NameError", "Undefined", <<>>)

\* the conversion of start_time in add_fill, add_run and add_file: a text is
\* converted, anything else goes on to validate_datetime(valid_until)
start_of(start_time) ==
  IF validate_str_t(start_time) THEN convert_date(start_time.parts)
  ELSE undefined_name

\* the conversion of end_time: a text is converted, a datetime loses its
\* microseconds, anything else is left as it is
end_of(end_time) == Normalise(end_time)

\* the three steps add_fill, add_run and add_file share: the conversion of
\* the bounds and the test start_time > end_time
interval_of(start_time, end_time) ==
  LET s == start_of(start_time)
      e == end_of(end_time)
  IN IF IsError(s) THEN s
     ELSE IF IsError(e) THEN e
     ELSE IF e.value = <<>>
       \* datetime > None
       THEN Raise("TypeError", "InvalidArgumentType", <<>>)
     ELSE IF TsGt(s.value[1], e.value[1])
       THEN Raise("ValueError", "InvalidInterval", <<>>)
     ELSE Ok(<<s.value[1], e.value[1]>>)

\* list_fills: value is <<the returned list>>
list_fills(start_date, end_date) == Ok(<< <<>> >>)

get_fill(fill_id) ==
  IF fill_id = <<>> THEN Raise("ValueError", "InvalidValue", <<>>)
  ELSE IF ~validate_str(fill_id)
    THEN Raise("TypeError", "InvalidArgumentType", <<>>)
  ELSE IF IsError(private_lookup)
    THEN Raise("ValueError", "NotFound", sanitize_str(fill_id))
  ELSE private_lookup

get_run(run_id) ==
  IF run_id = <<>> THEN Raise("ValueError", "InvalidValue", <<>>)
  ELSE IF ~validate_str(run_id)
    THEN Raise("TypeError", "InvalidArgumentType", <<>>)
  ELSE IF IsError(private_lookup)
    THEN Raise("ValueError", "NotFound", sanitize_str(run_id))
  ELSE private_lookup

get_file(file_id) ==
  IF file_id = <<>> THEN Raise("ValueError", "InvalidValue", <<>>)
  ELSE IF ~validate_str(file_id)
    THEN Raise("TypeError", "InvalidArgumentType", <<>>)
  ELSE IF IsError(private_lookup)
    THEN Raise("ValueError", "NotFound", sanitize_str(file_id))
  ELSE private_lookup

add_fill(fill_id, start_time, end_time) ==
  IF fill_id = <<>> THEN Raise("TypeError", "InvalidValue", <<>>)
  ELSE LET i == interval_of(start_time, end_time)
       IN IF IsError(i) THEN i ELSE embedded_save

add_run(run_id, fill_id, start_time, end_time) ==
  IF run_id = <<>> \/ fill_id = <<>> THEN Raise("TypeError", "InvalidValue", <<>>)
  ELSE LET i == interval_of(start_time, end_time)
       IN IF IsError(i) THEN i
          \* get_fill(fill_id) == ""
          ELSE IF IsError(undefined_name) THEN undefined_name
          ELSE embedded_save

\* the stubs: a docstring and no statement, the call returns None
remove_run(run_id) == Ok(<<>>)

list_runs(fill_id, start_time, end_time) == Ok(<<>>)

add_file(run_id, file_id, start_time, end_time) ==
  IF run_id = <<>> \/ file_id = <<>> THEN Raise("TypeError", "InvalidValue", <<>>)
  ELSE LET i == interval_of(start_time, end_time)
       IN IF IsError(i) THEN i
          \* get_run(run_id) == ""
          ELSE undefined_name

remove_file(file_id) == Ok(<<>>)

list_files(fill_id, run_id, start_time, end_time) == Ok(<<>>)

\* remove_fill: the failure of the lookup is printed, not raised
remove_fill(fill_id) ==
  IF ~validate_str(fill_id)
    THEN Raise("TypeError", "InvalidArgumentType", <<>>)
  ELSE IF fill_id = <<>> THEN Raise("ValueError", "InvalidValue", <<>>)
  ELSE Ok(<<>>)

add_attributes_to_file(file_id, path, luminosity, nb_events, size, DQ) == Ok(<<>>)

add_attributes_to_fill(fill_id, luminosity, filling_scheme, energy, colliding_bunches, B1, B2) == Ok(<<>>)

add_attributes_to_run(run_id, luminosity, nb_events, runtype, beam_status, status, HV, eor_status) == Ok(<<>>)

(***************************************************************************)
(* Arguments of the calls.                                                 *)
(***************************************************************************)
DetNames == {<<"A">>, <<"B">>, <<SP, "A">>, <<"A", SL>>}

Parents ==
  {None, <<"A">>, <<"B">>, <<"A", SL, "B">>, <<SL, "A", SL, "B", SP>>,
   <<"A", SL, "A", SL, "B">>}

Paths ==
  {<<"A">>, <<"B">>, <<"A", SL, "A">>, <<"A", SL, "B">>,
   <<"A", SL, "B", SL, "A">>, <<"A", SL, "A", SL, "B">>,
   <<SL, "A", SL, "B", SP>>}

\* SpecNames: names that are empty, blank, padded or hold a slash, for a root
\* and for a child of A
BlankNames == {<<>>, <<SP>>, <<"A">>, <<SP, "A">>, <<"A", SL>>, <<"B">>}

BlankParents == {None, <<"A">>}

\* the parents list_detectors is asked for
ListParents ==
  {None, <<>>, <<"A">>, <<"B">>, <<SL, "A", SL, "B", SP>>}

OwnNames == {<<"A">>, <<"B", SP>>}

OwnParents == {None, <<"A">>, <<"A", SL, "B">>}

OwnPaths == {<<"A", SL, "A">>, <<"A", SL, "B">>, <<"A", SL, "B", SL, "A">>}

V1 == <<"1">>

\* "2020", "2020-06-01", "2021-01-01", and datetimes
Y2020 == StrT(<<2020>>)
Jun2020 == StrT(<<2020, 6, 1>>)
Dec2020 == DateTime(<<2020, 12, 31, 0, 0, 0>>, 5)
Y2021 == StrT(<<2021, 1, 1>>)
DateTimeMax == DateTime(<<9999, 12, 31, 23, 59, 59>>, 999999)

\* the arguments of add_condition and update_condition_by_name_and_tag
CondArgs(ps, ns, tgs, vals, tys, cas, vss, vus) ==
  [detector_id : ps, name : ns, tag : tgs, values : vals, type : tys,
   collected_at : cas, valid_since : vss, valid_until : vus]

OwnCondPaths == {<<"A">>, <<"A", SL, "B">>}

\* SpecCond: the conditions of one root detector
RootA == {<<"A">>}

OwnCondArgs ==
  CondArgs(OwnCondPaths, {<<"n">>}, {<<"t">>, <<"u", SP>>}, {V1},
           {None}, {Y2020}, {Y2020}, {DateTimeMax})
    \cup CondArgs(OwnCondPaths, {<<SP, "n">>}, {<<"t">>}, {V1},
                  {None}, {Y2020}, {Y2020}, {DateTimeMax})

OwnUpdateArgs ==
  CondArgs(RootA, {<<"n", SP>>}, {<<"t">>}, {V1},
           {<<"c">>}, {NoneT}, {NoneT}, {NoneT})

OwnDateArgs ==
  CondArgs(RootA, {<<"n">>}, {<<"t">>}, {V1}, {None}, {Y2020, Jun2020},
           {NoneT}, {NoneT})

CondAddArgs ==
  CondArgs(RootA, {<<"n">>}, {<<"t">>, <<"u">>}, {V1}, {<<"c">>}, {Y2020},
           {Y2020, Y2021}, {Jun2020, DateTimeMax})
    \cup CondArgs(RootA, {<<SP, "m">>}, {<<"t">>}, {V1}, {<<"c">>}, {Y2020},
                  {Y2020}, {Dec2020})

CondUpdateArgs ==
  CondArgs(RootA, {<<"n">>}, {<<"t">>}, {V1}, {None, <<"d", SP>>}, {Y2020},
           {NoneT, Y2021}, {NoneT, Jun2020})

CondQueryArgs ==
  CondArgs(RootA, {<<"n", SP>>, <<"m">>}, {<<"t">>}, {V1}, {None}, {Y2020},
           {Jun2020, Dec2020, Y2021}, {NoneT, Dec2020})

\* SpecRun: the ids and the bounds of fills, runs and files
FillIds == {<<"F">>, <<"G">>, <<SP, "F">>, <<>>, NotStr}

RunIds == {<<"R">>, <<>>, NotStr}

FileIds == {<<"X">>, <<>>, NotStr}

FillArgs ==
  [fill_id : {<<"F">>, <<"G">>, <<>>}, start_time : {Y2020, Jun2020, Dec2020},
   end_time : {Y2020, Dec2020, Y2021}]

RunArgs ==
  [run_id : {<<"R">>, <<>>}, fill_id : {<<"F">>, <<"G">>},
   start_time : {Y2020, Jun2020, Dec2020}, end_time : {Y2020, Dec2020, Y2021}]

FileArgs ==
  [run_id : {<<"R">>}, file_id : {<<"X">>}, start_time : {Y2020, Jun2020},
   end_time : {Y2020, Dec2020, Y2021}]

ListFillArgs ==
  [start_date : {NoneT, Y2020, Y2021}, end_date : {NoneT, Y2020, Dec2020}]

ListRunArgs ==
  [fill_id : {None, <<"F">>}, start_time : {NoneT, Y2021},
   end_time : {NoneT, Y2020}]

ListFileArgs ==
  [fill_id : {None}, run_id : {None, <<"R">>}, start_time : {NoneT, Y2021},
   end_time : {NoneT, Y2020}]

FillAttributeArgs == [fill_id : {<<"F">>}, energy : {None, <<"1">>, <<"2">>}]

RunAttributeArgs == [run_id : {<<"R">>}, nb_events : {None, <<"1">>, <<"2">>}]

FileAttributeArgs == [file_id : {<<"X">>}, size : {None, <<"1">>, <<"2">>}]

Call(op, args, r) ==
  [op |-> op, args |-> args, outcome |-> r.outcome, err |-> r.err,
   path |-> r.path, value |-> r.value]

(***************************************************************************)
(* The actions: one per handler of the adapter.  The arguments are drawn   *)
(* from the sets the specification passes.                                 *)
(***************************************************************************)
\* the clock: the second of 2022-01-01 00:00 it shows; the module is
\* imported, and its class body executed, at ImportSecond
ImportSecond == 0

ClockTime(s) == <<2022, 1, 1, 0, 0, s>>

\* datetime.now() when the clock shows s
datetime_now(s) == DateTime(ClockTime(s), 7)

Init ==
  /\ wrappers = <<>>
  /\ result = Call("init", <<>>, Ok(<<>>))
  /\ calls = <<>>
  /\ now = ImportSecond

Bounded(ws, maxNodes) ==
  /\ Len(ws) <= MaxWrappers
  /\ TotalNodes(ws) <= maxNodes
  /\ TotalConds(ws) <= MaxConds

AddDetector(names, parents, maxNodes) ==
  \E name \in names, parent_id \in parents :
    \E r \in {add_detector(wrappers, name, parent_id)} :
      /\ Bounded(r.store, maxNodes)
      /\ wrappers' = r.store
      /\ result' = Call("add_detector", <<name, parent_id>>, r.res)
      /\ UNCHANGED <<calls, now>>

RemoveDetector(paths) ==
  \E detector_id \in paths :
    \E r \in {remove_detector(wrappers, detector_id)} :
      /\ wrappers' = r.store
      /\ result' = Call("remove_detector", <<detector_id>>, r.res)
      /\ UNCHANGED <<calls, now>>

GetDetector(paths) ==
  \E detector_id \in paths :
    /\ result' = Call("get_detector", <<detector_id>>,
                      get_detector(wrappers, detector_id))
    /\ UNCHANGED <<wrappers, calls, now>>

ListDetectors(parents) ==
  \E parent_id \in parents :
    /\ result' = Call("list_detectors", <<parent_id>>,
                      list_detectors(wrappers, parent_id))
    /\ UNCHANGED <<wrappers, calls, now>>

AddCondition(args) ==
  \E a \in args :
    \E r \in {add_condition(wrappers, a.detector_id, a.name, a.tag, a.values,
                            a.type, a.collected_at, a.valid_since,
                            a.valid_until)} :
      /\ TotalConds(r.store) <= MaxConds
      /\ wrappers' = r.store
      /\ result' = Call("add_condition", a, r.res)
      /\ UNCHANGED <<calls, now>>

UpdateCondition(args) ==
  \E a \in args :
    \E r \in {update_condition_by_name_and_tag(wrappers, a.detector_id,
                 a.name, a.tag, a.type, a.valid_since, a.valid_until)} :
      /\ wrappers' = r.store
      /\ result' = Call("update_condition_by_name_and_tag", a, r.res)
      /\ UNCHANGED <<calls, now>>

GetConditions(paths) ==
  \E detector_id \in paths :
    /\ result' = Call("get_conditions", <<detector_id>>,
                      get_conditions(wrappers, detector_id))
    /\ UNCHANGED <<wrappers, calls, now>>

GetConditionByNameAndCollectionDate(args) ==
  \E a \in args :
    /\ result' = Call("get_condition_by_name_and_collection_date", a,
                      get_condition_by_name_and_collection_date(wrappers,
                        a.detector_id, a.name, a.collected_at))
    /\ UNCHANGED <<wrappers, calls, now>>

GetConditionsByNameAndValidity(args) ==
  \E a \in args :
    /\ result' = Call("get_conditions_by_name_and_validity", a,
                      get_conditions_by_name_and_validity(wrappers,
                        a.detector_id, a.name, a.valid_since, a.valid_until))
    /\ UNCHANGED <<wrappers, calls, now>>

AddFill(args) ==
  \E a \in args :
    /\ result' = Call("add_fill", a,
                      add_fill(a.fill_id, a.start_time, a.end_time))
    /\ UNCHANGED <<wrappers, calls, now>>

GetFill(ids) ==
  \E fill_id \in ids :
    /\ result' = Call("get_fill", <<fill_id>>, get_fill(fill_id))
    /\ UNCHANGED <<wrappers, calls, now>>

RemoveFill(ids) ==
  \E fill_id \in ids :
    /\ result' = Call("remove_fill", <<fill_id>>, remove_fill(fill_id))
    /\ UNCHANGED <<wrappers, calls, now>>

ListFills(args) ==
  \E a \in args :
    /\ result' = Call("list_fills", a, list_fills(a.start_date, a.end_date))
    /\ UNCHANGED <<wrappers, calls, now>>

AddRun(args) ==
  \E a \in args :
    /\ result' = Call("add_run", a,
                      add_run(a.run_id, a.fill_id, a.start_time, a.end_time))
    /\ UNCHANGED <<wrappers, calls, now>>

GetRun(ids) ==
  \E run_id \in ids :
    /\ result' = Call("get_run", <<run_id>>, get_run(run_id))
    /\ UNCHANGED <<wrappers, calls, now>>

RemoveRun(ids) ==
  \E run_id \in ids :
    /\ result' = Call("remove_run", <<run_id>>, remove_run(run_id))
    /\ UNCHANGED <<wrappers, calls, now>>

ListRuns(args) ==
  \E a \in args :
    /\ result' = Call("list_runs", a,
                      list_runs(a.fill_id, a.start_time, a.end_time))
    /\ UNCHANGED <<wrappers, calls, now>>

AddFile(args) ==
  \E a \in args :
    /\ result' = Call("add_file", a,
                      add_file(a.run_id, a.file_id, a.start_time, a.end_time))
    /\ UNCHANGED <<wrappers, calls, now>>

GetFile(ids) ==
  \E file_id \in ids :
    /\ result' = Call("get_file", <<file_id>>, get_file(file_id))
    /\ UNCHANGED <<wrappers, calls, now>>

RemoveFile(ids) ==
  \E file_id \in ids :
    /\ result' = Call("remove_file", <<file_id>>, remove_file(file_id))
    /\ UNCHANGED <<wrappers, calls, now>>

ListFiles(args) ==
  \E a \in args :
    /\ result' = Call("list_files", a,
                      list_files(a.fill_id, a.run_id, a.start_time, a.end_time))
    /\ UNCHANGED <<wrappers, calls, now>>

AddAttributesToFill(args) ==
  \E a \in args :
    /\ result' = Call("add_attributes_to_fill", a,
                      add_attributes_to_fill(a.fill_id, None, None, a.energy,
                                             None, None, None))
    /\ UNCHANGED <<wrappers, calls, now>>

AddAttributesToRun(args) ==
  \E a \in args :
    /\ result' = Call("add_attributes_to_run", a,
                      add_attributes_to_run(a.run_id, None, a.nb_events, None,
                                            None, None, None, None))
    /\ UNCHANGED <<wrappers, calls, now>>

AddAttributesToFile(args) ==
  \E a \in args :
    /\ result' = Call("add_attributes_to_file", a,
                      add_attributes_to_file(a.file_id, None, None, None,
                                             a.size, None))
    /\ UNCHANGED <<wrappers, calls, now>>

GetConditionByNameAndTag(args) ==
  \E a \in args :
    /\ result' = Call("get_condition_by_name_and_tag", a,
                      get_condition_by_name_and_tag(wrappers, a.detector_id,
                                                    a.name, a.tag))
    /\ UNCHANGED <<wrappers, calls, now>>

GetConditionsByName(paths, names) ==
  \E detector_id \in paths, name \in names :
    /\ result' = Call("get_conditions_by_name", <<detector_id, name>>,
                      get_conditions_by_name(wrappers, detector_id, name))
    /\ UNCHANGED <<wrappers, calls, now>>

GetConditionsByTag(paths, tags) ==
  \E detector_id \in paths, tag \in tags :
    /\ result' = Call("get_conditions_by_tag", <<detector_id, tag>>,
                      get_conditions_by_tag(wrappers, detector_id, tag))
    /\ UNCHANGED <<wrappers, calls, now>>

\* the default values of the parameters collected_at, valid_since and
\* valid_until of add_condition: the expressions of the def statement,
\* evaluated when the class body is executed
add_condition_defaults ==
  [collected_at |-> datetime_now(ImportSecond),
   valid_since |-> datetime_now(ImportSecond),
   valid_until |-> DateTimeMax]

\* an argument the caller leaves out
Omitted == [kind |-> "omitted"]

\* add_condition(detector_id, name, tag, values)
AddConditionOmitted(args) ==
  \E a \in args :
    \E r \in {add_condition(wrappers, a.detector_id, a.name, a.tag, a.values,
                None, add_condition_defaults.collected_at,
                add_condition_defaults.valid_since,
                add_condition_defaults.valid_until)} :
      /\ TotalConds(r.store) <= MaxConds
      /\ wrappers' = r.store
      /\ result' = Call("add_condition",
                        [detector_id |-> a.detector_id, name |-> a.name,
                         tag |-> a.tag, values |-> a.values, type |-> None,
                         collected_at |-> Omitted, valid_since |-> Omitted,
                         valid_until |-> Omitted], r.res)
      /\ UNCHANGED <<calls, now>>

\* a second passes
Tick ==
  /\ now < MaxSecond
  /\ now' = now + 1
  /\ UNCHANGED <<wrappers, result, calls>>

(***************************************************************************)
(* Spec: the detector trees.                                               *)
(***************************************************************************)
Next ==
  \/ AddDetector(DetNames, Parents, MaxNodes)
  \/ RemoveDetector(Paths)
  \/ GetDetector(Paths)
  \/ ListDetectors(ListParents)

Spec == Init /\ [][Next]_vars

(***************************************************************************)
(* SpecNames: the names add_detector accepts.                              *)
(***************************************************************************)
NextNames ==
  \/ AddDetector(BlankNames, BlankParents, MaxNodes)
  \/ ListDetectors(BlankParents)

SpecNames == Init /\ [][NextNames]_vars

(***************************************************************************)
(* SpecOwn: detector trees with conditions attached to their nodes.        *)
(***************************************************************************)
NextOwn ==
  \/ AddDetector(OwnNames, OwnParents, MaxOwnNodes)
  \/ RemoveDetector(OwnPaths)
  \/ AddCondition(OwnCondArgs)
  \/ UpdateCondition(OwnUpdateArgs)
  \/ GetConditions(OwnCondPaths)
  \/ GetConditionByNameAndCollectionDate(OwnDateArgs)

SpecOwn == Init /\ [][NextOwn]_vars

(***************************************************************************)
(* SpecCond: the conditions of one detector and their validity intervals.  *)
(***************************************************************************)
NextCond ==
  \/ AddDetector(RootA, {None}, 1)
  \/ AddCondition(CondAddArgs)
  \/ UpdateCondition(CondUpdateArgs)
  \/ GetConditionsByNameAndValidity(CondQueryArgs)

SpecCond == Init /\ [][NextCond]_vars

(***************************************************************************)
(* SpecRun: the run database.                                              *)
(***************************************************************************)
NextRun ==
  \/ AddFill(FillArgs)
  \/ GetFill(FillIds)
  \/ RemoveFill(FillIds)
  \/ ListFills(ListFillArgs)
  \/ AddRun(RunArgs)
  \/ GetRun(RunIds)
  \/ RemoveRun(RunIds)
  \/ ListRuns(ListRunArgs)
  \/ AddFile(FileArgs)
  \/ GetFile(FileIds)
  \/ RemoveFile(FileIds)
  \/ ListFiles(ListFileArgs)
  \/ AddAttributesToFill(FillAttributeArgs)
  \/ AddAttributesToRun(RunAttributeArgs)
  \/ AddAttributesToFile(FileAttributeArgs)

SpecRun == Init /\ [][NextRun]_vars

(***************************************************************************)
(* The factory (factory.py).  A configuration is what the call finds on    *)
(* disk: path is the argument, readable says that open() of the file       *)
(* succeeds, db_type is the value of the key db_type of the YAML document  *)
(* (Absent: no such key), section says that the document has a key equal   *)
(* to db_type, fields are the keys of that section.                        *)
(***************************************************************************)
Absent == <<"absent">>

DOT == "."

Fields == {"host", "db_name", "user", "password", "port"}

Mongo == <<"m", "o", "n", "g", "o">>

supported_db_types == {Mongo}

\* str.lower() on the letters of the model
lower(s) == [i \in 1..Len(s) |-> IF s[i] = "M" THEN "m" ELSE s[i]]

\* MongoToCDBAPIAdapter(connection_dict): the adapter and its connection
MongoToCDBAPIAdapter(connection_dict) ==
  Ok(<<[class |-> "MongoToCDBAPIAdapter", db_connection |-> connection_dict]>>)

\* __read_config_file: value is <<>> for None, <<[db_type, connection_dict]>>
\* for the dictionary of one key
read_config_file(cfg) ==
  LET path_details == split(cfg.path, DOT)
      file_extention == path_details[Len(path_details)]
  IN IF /\ cfg.path # None /\ cfg.path # <<>>
        /\ file_extention \notin {<<"y", "m", "l">>, <<"y", "a", "m", "l">>}
       THEN Ok(<<>>)
     ELSE IF ~cfg.readable THEN Ok(<<>>)
     ELSE IF cfg.db_type = Absent THEN Ok(<<>>)
     ELSE IF cfg.db_type = None THEN Ok(<<>>)
     ELSE IF ~cfg.section THEN Ok(<<>>)
     ELSE IF cfg.fields # Fields THEN Ok(<<>>)
     ELSE Ok(<<[db_type |-> lower(cfg.db_type), connection_dict |-> cfg.fields]>>)

\* construct_DB_API without the test of the supported types
construct_DB_API_unchecked(cfg) ==
  LET config == read_config_file(cfg)
  IN IF config.value = <<>> THEN Raise("ValueError", "NoConfig", <<>>)
     ELSE MongoToCDBAPIAdapter(config.value[1].connection_dict)

construct_DB_API(cfg) ==
  LET config == read_config_file(cfg)
  IN IF config.value = <<>> THEN Raise("ValueError", "NoConfig", <<>>)
     ELSE LET db_type == config.value[1].db_type
              connection_dict == config.value[1].connection_dict
          IN IF db_type \notin supported_db_types
               THEN Raise("NotImplementedError", "NotSupported", db_type)
             ELSE IF db_type = Mongo THEN MongoToCDBAPIAdapter(connection_dict)
             ELSE Raise("NotImplementedError", "NotSupported", db_type)

\* the configurations: no path, an empty path, YAML paths and another path;
\* a db_type that is missing, null, supported, supported in another case, or
\* not supported; a section with every field or with one field missing
ConfigPaths ==
  {None, <<>>, <<"c", DOT, "y", "m", "l">>, <<"c", DOT, "y", "a", "m", "l">>,
   <<"c", DOT, "t", "x", "t">>}

DbTypes ==
  {Absent, None, Mongo, <<"M", "o", "n", "g", "o">>, <<"s", "q", "l">>}

Configs ==
  [path : ConfigPaths, readable : BOOLEAN, db_type : DbTypes,
   section : BOOLEAN, fields : {Fields} \cup {Fields \ {f} : f \in Fields}]

ConstructDBAPI(configs) ==
  \E cfg \in configs :
    /\ result' = Call("construct_DB_API", cfg, construct_DB_API(cfg))
    /\ UNCHANGED <<wrappers, calls, now>>

(***************************************************************************)
(* SpecErrors: calls that fail.  The arguments hold a wrong type, an empty *)
(* id, a name with a slash, bounds in the wrong order, a date that does    *)
(* not parse, paths that do not exist and keys that do.                    *)
(***************************************************************************)
ErrNames == {<<"A">>, <<>>, NotStr, <<"A", SL>>}

ErrParents == {None, <<"A">>, <<"B">>, NotStr}

ErrPaths == {<<"A">>, <<"A", SL, "A">>, <<"B">>, <<>>, NotStr}

ErrCondArgs ==
  CondArgs({<<"A">>, <<"B">>, <<>>}, {<<"n">>, NotStr}, {<<"t">>}, {V1}, {None},
           {Y2020}, {Y2020, Y2021}, {Jun2020, StrT(<<2020, 13>>)})

ErrUpdateArgs ==
  CondArgs({<<"A">>, <<"B">>}, {<<"n">>, <<"m">>}, {<<"t">>}, {V1},
           {None, NotStr}, {Y2020}, {NoneT, Y2021}, {NoneT, Jun2020})

NextErrors ==
  \/ AddDetector(ErrNames, ErrParents, MaxNodes)
  \/ RemoveDetector(ErrPaths)
  \/ AddCondition(ErrCondArgs)
  \/ UpdateCondition(ErrUpdateArgs)

SpecErrors == Init /\ [][NextErrors]_vars

(***************************************************************************)
(* SpecFactory: the construction of the adapter from a configuration.      *)
(***************************************************************************)
NextFactory == ConstructDBAPI(Configs)

SpecFactory == Init /\ [][NextFactory]_vars

(***************************************************************************)
(* Concurrent callers.  Every call of the adapter is a sequence of         *)
(* operations on the collection, each of them atomic; between them the     *)
(* call holds the wrapper it read.  Document.save() of a wrapper that was  *)
(* read from the collection sends the fields the call changed: the list    *)
(* (conditions or subdetectors) it appended to or popped from, at the      *)
(* position of that list in the document, with every element the call      *)
(* holds of it.  calls[p] is the call of caller p: pc its position, doc    *)
(* the wrapper it holds, idx the position of the detector it resolved,     *)
(* field and value the list it is about to save, stale whether another     *)
(* caller wrote the document after this call read it.  A call that has     *)
(* returned stays in calls[p], with its outcome, until p calls again;      *)
(* result is not used.                                                     *)
(***************************************************************************)
Procs == {1, 2}

Idle ==
  [pc |-> "idle", op |-> "", args |-> <<>>, doc |-> <<>>, idx |-> <<>>,
   field |-> "", value |-> <<>>, stale |-> FALSE, outcome |-> "", err |-> ""]

\* the call of p after the step that takes it to pc
InFlight(pc, op, args, doc, idx, field, value, stale) ==
  [pc |-> pc, op |-> op, args |-> args, doc |-> doc, idx |-> idx,
   field |-> field, value |-> value, stale |-> stale, outcome |-> "",
   err |-> ""]

At(c, pc) == [c EXCEPT !.pc = pc]

Returned(c, res) ==
  [Idle EXCEPT !.op = c.op, !.stale = c.stale, !.outcome = res.outcome,
               !.err = res.err]

\* a detector that a write to a position under it brings into being
Ghost == [name |-> None, subdetectors |-> <<>>, conditions |-> <<>>]

\* the ObjectId of a new document: one that no stored document and no call
\* in flight carries
RaceNewId(ws, cs) ==
  LET used == {ws[k].id : k \in 1..Len(ws)}
                \cup {cs[p].doc[1].id : p \in {q \in Procs : cs[q].doc # <<>>}}
  IN CHOOSE i \in 1..(Cardinality(used) + 1) :
       i \notin used /\ \A j \in 1..(i - 1) : j \in used

\* $set of the list field of the detector at idx: the positions that do not
\* exist are made
RECURSIVE SetPath(_, _, _, _)
SetPath(d, idx, field, value) ==
  IF idx = <<>> THEN [d EXCEPT ![field] = value]
  ELSE LET k == Head(idx)
           n == Len(d.subdetectors)
           subs == [i \in 1..(IF k > n THEN k ELSE n) |->
                      IF i <= n THEN d.subdetectors[i] ELSE Ghost]
       IN [d EXCEPT !.subdetectors =
             [subs EXCEPT ![k] = SetPath(@, Tail(idx), field, value)]]

RECURSIVE PathExists(_, _)
PathExists(d, idx) ==
  \/ idx = <<>>
  \/ /\ Head(idx) <= Len(d.subdetectors)
     /\ PathExists(d.subdetectors[Head(idx)], Tail(idx))

\* the update save() sends for a changed list, with a write of the list only
\* while the stored document is the one the call read
update_list_if_current(ws, doc, idx, field, value) ==
  IF \E i \in 1..Len(ws) : ws[i] = doc
    THEN [ws EXCEPT ![CHOOSE i \in 1..Len(ws) : ws[i] = doc].detector =
            <<SetPath(doc.detector[1], idx, field, value)>>]
    ELSE ws

\* the update save() sends for a changed list: $set of the list (an empty
\* list is unset), by _id, as an upsert
update_list(ws, doc, idx, field, value) ==
  LET at == {i \in 1..Len(ws) : ws[i].id = doc.id}
  IN IF at = {}
       THEN Append(ws, DetectorWrapper(doc.id, None,
              IF value = <<>> THEN <<>>
              ELSE <<SetPath(Ghost, idx, field, value)>>))
     ELSE LET i == CHOOSE k \in at : TRUE
              stored == IF ws[i].detector = <<>> THEN Ghost
                        ELSE ws[i].detector[1]
          IN IF value = <<>> /\ (ws[i].detector = <<>> \/ ~PathExists(stored, idx))
               THEN ws
               ELSE [ws EXCEPT ![i].detector =
                       <<SetPath(stored, idx, field, value)>>]

\* SpecRace: the root A, its child B and the condition (n, t) of A/B
RaceRoots == {<<"A">>}

RaceChildren == [name : {<<"B">>}, parent_id : {<<"A">>}]

RacePaths == {<<"A">>, <<"A", SL, "B">>}

RaceCondArgs ==
  CondArgs({<<"A", SL, "B">>}, {<<"n">>}, {<<"t">>}, {V1}, {None}, {Y2020},
           {Y2020}, {DateTimeMax})

\* SpecLost: the root A, its child B and the conditions (n, t) and (n, u) of A
LostPaths == {<<"A", SL, "B">>}

LostCondArgs ==
  CondArgs(RootA, {<<"n">>}, {<<"t">>, <<"u">>}, {V1}, {None}, {Y2020},
           {Y2020}, {DateTimeMax})

\* the wrapper of detector_id as a call finds it: a wrapper that has no detector
\* yet fails the walk to a subdetector (NotFound) and, for the root itself,
\* the first use of the detector (AttributeError)
wrapper_detector(ws, detector_id) ==
  LET w == get_wrapper(ws, detector_id)
  IN IF IsError(w) THEN Raise("ValueError", "NotFound", detector_id)
     ELSE IF ws[w.value[1]].detector # <<>> THEN Ok(<<>>)
     ELSE IF Len(split_detector_names(detector_id)) < 2
       THEN Raise("AttributeError", "NoDetector", <<>>)
     ELSE Raise("ValueError", "NotFound", detector_id)

InitRace ==
  /\ wrappers = <<>>
  /\ result = Call("init", <<>>, Ok(<<>>))
  /\ calls = [p \in Procs |-> Idle]
  /\ now = ImportSecond

\* the calls in flight that hold the document id and so hold an old copy of
\* it once p has written it
Stale(cs, p, id) ==
  [q \in Procs |->
     IF q # p /\ cs[q].pc # "idle" /\ cs[q].doc # <<>> /\ cs[q].doc[1].id = id
       THEN [cs[q] EXCEPT !.stale = TRUE] ELSE cs[q]]

\* p goes on to the next operation of its call
Goto(p, c) ==
  /\ calls' = [calls EXCEPT ![p] = c]
  /\ UNCHANGED <<wrappers, result, now>>

\* the call of p returns, or raises, without a write
Return(p, c, res) ==
  /\ calls' = [calls EXCEPT ![p] = Returned(c, res)]
  /\ UNCHANGED <<wrappers, result, now>>

\* add_detector of a root: the test of __add_wrapper, then the save of the
\* new wrapper, then the save of the wrapper with its detector
BeginAddRoot(p, roots) ==
  \E name \in roots :
    LET c == InFlight("insert", "add_detector", <<name, None>>, <<>>, <<>>,
                      "", <<>>, FALSE)
    IN /\ calls[p].pc = "idle"
       /\ IF WrappersNamed(wrappers, sanitize_str(name)) = {}
            THEN Goto(p, c)
            ELSE Return(p, c, Raise("ValueError", "AlreadyExists",
                                    sanitize_str(name)))

InsertWrapper(p) ==
  LET c == calls[p]
      wrapper == DetectorWrapper(RaceNewId(wrappers, calls),
                                 sanitize_str(c.args[1]), <<>>)
  IN /\ c.pc = "insert"
     /\ Len(wrappers) < MaxWrappers
     /\ wrappers' = Append(wrappers, wrapper)
     /\ calls' = [calls EXCEPT ![p] = [At(c, "attach") EXCEPT !.doc = <<wrapper>>]]
     /\ UNCHANGED <<result, now>>

AttachDetector(p) ==
  LET c == calls[p]
      doc == c.doc[1]
      at == {i \in 1..Len(wrappers) : wrappers[i].id = doc.id}
      detector == <<Detector(sanitize_str(c.args[1]))>>
      ws == IF at = {} THEN Append(wrappers, DetectorWrapper(doc.id, None, detector))
            ELSE [wrappers EXCEPT ![CHOOSE i \in at : TRUE].detector = detector]
  IN /\ c.pc = "attach"
     /\ Bounded(ws, MaxNodes)
     /\ wrappers' = ws
     /\ calls' = [Stale(calls, p, doc.id) EXCEPT ![p] = Returned(c, Ok(<<>>))]
     /\ UNCHANGED <<result, now>>

\* add_detector under a parent: the wrapper is read and the parent and the
\* name are looked up in it; detector_wrapper.save() comes next
BeginAddChild(p, children) ==
  \E a \in children :
    LET nm == sanitize_str(a.name)
        pid == sanitize_path(a.parent_id)
        c == InFlight("write", "add_detector", <<a.name, a.parent_id>>, <<>>,
                      <<>>, "subdetectors", <<>>, FALSE)
        w == get_wrapper(wrappers, split_detector_names(pid)[1])
    IN /\ calls[p].pc = "idle"
       /\ IF IsError(w)
            THEN Return(p, c, Raise("ValueError", "NotFound",
                                    split_detector_names(pid)[1]))
          ELSE
            LET doc == wrappers[w.value[1]]
                d == IF doc.detector = <<>> THEN wrapper_detector(wrappers, pid)
                     ELSE get_detector_node(doc, pid)
            IN IF d.outcome = "AttributeError" THEN Return(p, c, d)
               ELSE IF IsError(d)
                 THEN Return(p, c, Raise("ValueError", "NotFound", pid))
               ELSE
                 LET parent == NodeAt(doc.detector[1], d.value)
                     g == GetOne({i \in 1..Len(parent.subdetectors) :
                                    parent.subdetectors[i].name = nm})
                 IN IF g.outcome = "DoesNotExist"
                      THEN Goto(p, [c EXCEPT !.doc = <<doc>>, !.idx = d.value,
                                      !.value = Append(parent.subdetectors,
                                                       Detector(nm))])
                    ELSE IF IsError(g) THEN Return(p, c, g)
                    ELSE Return(p, c, Raise("ValueError", "AlreadyExists",
                                            pid \o <<SL>> \o nm))

\* remove_detector: the wrapper is read; a root goes on to __remove_wrapper, a
\* subdetector is popped from the list of its parent in the wrapper read
BeginRemove(p, paths) ==
  \E detector_id \in paths :
    LET id == sanitize_path(detector_id)
        detector_names == split_detector_names(id)
        c == InFlight("write", "remove_detector", <<detector_id>>, <<>>,
                      <<>>, "subdetectors", <<>>, FALSE)
        w == get_wrapper(wrappers, id)
    IN /\ calls[p].pc = "idle"
       /\ IF IsError(w) THEN Return(p, c, Raise("ValueError", "NotFound", id))
          ELSE
            LET doc == wrappers[w.value[1]]
                path == sanitize_path(join(SubSeq(detector_names, 1,
                                                  Len(detector_names) - 1)))
                d == IF doc.detector = <<>>
                       THEN Raise("AttributeError", "NoDetector", <<>>)
                       ELSE get_detector_node(doc, path)
            IN IF Len(detector_names) < 2
                 THEN Goto(p, [At(c, "delete") EXCEPT !.doc = <<doc>>])
               ELSE IF IsError(d) THEN Return(p, c, d)
               ELSE Goto(p, [c EXCEPT !.doc = <<doc>>, !.idx = d.value,
                               !.value = PopFirstNamed(
                                 NodeAt(doc.detector[1], d.value).subdetectors,
                                 detector_names[Len(detector_names)])])

\* __remove_wrapper: the wrapper of that name is looked up again and deleted;
\* the rest of remove_detector changes nothing of a root that has no child of
\* its own name, and its save() sends nothing
DeleteWrapper(p) ==
  LET c == calls[p]
      detector_names == split_detector_names(sanitize_path(c.args[1]))
      r == remove_wrapper(wrappers, detector_names[1])
      w == get_wrapper(wrappers, detector_names[1])
  IN /\ c.pc = "delete"
     /\ IF IsError(r.res)
          THEN Return(p, c, Raise("ValueError", "NotFound", detector_names[1]))
          ELSE /\ wrappers' = r.store
               /\ calls' = [Stale(calls, p, wrappers[w.value[1]].id)
                              EXCEPT ![p] = Returned(c, Ok(<<>>))]
               /\ UNCHANGED <<result, now>>

\* add_condition: the wrapper is read and the detector looked up in it
BeginAddCondition(p, args) ==
  \E a \in args :
    LET c == InFlight("check", "add_condition", a, <<>>, <<>>, "conditions",
                      <<>>, FALSE)
        w == wrapper_detector(wrappers, a.detector_id)
        r == resolve(wrappers, a.detector_id)
    IN /\ calls[p].pc = "idle"
       /\ IF IsError(w) THEN Return(p, c, w)
          ELSE IF IsError(r) THEN Return(p, c, r)
          ELSE Goto(p, [c EXCEPT !.doc = <<wrappers[r.value[1]]>>,
                          !.idx = r.value[2]])

\* the test for the (name, tag) key: get_condition_by_name_and_tag reads the
\* wrapper again; the condition is then appended in the wrapper read first
CheckCondition(p) ==
  LET c == calls[p]
      a == c.args
      w == wrapper_detector(wrappers, a.detector_id)
      g == IF IsError(w) THEN w
           ELSE get_condition_by_name_and_tag(wrappers, a.detector_id,
                                              a.name, a.tag)
      condition ==
        Condition(sanitize_str(a.name), sanitize_str(a.tag), a.values, a.type,
                  Normalise(a.collected_at).value[1],
                  Normalise(a.valid_since).value[1],
                  Normalise(a.valid_until).value[1])
  IN /\ c.pc = "check"
     /\ IF IsError(g) THEN Return(p, c, g)
        ELSE IF g.value # <<>>
          THEN Return(p, c, Raise("ValueError", "AlreadyExists", <<>>))
        ELSE Goto(p, [At(c, "write") EXCEPT !.value =
                        Append(NodeAt(c.doc[1].detector[1], c.idx).conditions,
                               condition)])

\* detector_wrapper.save() / wrapper.save() of the changed list
SaveWrapper(p) ==
  LET c == calls[p]
  IN /\ c.pc = "write"
     /\ \E ws \in {update_list(wrappers, c.doc[1], c.idx, c.field, c.value)} :
          /\ Bounded(ws, MaxNodes)
          /\ wrappers' = ws
     /\ calls' = [Stale(calls, p, c.doc[1].id) EXCEPT ![p] = Returned(c, Ok(<<>>))]
     /\ UNCHANGED <<result, now>>

(***************************************************************************)
(* SpecRace: two callers that add and remove the root A and its child B    *)
(* and add a condition to B.                                               *)
(***************************************************************************)
NextRace ==
  \/ \E p \in Procs : BeginAddRoot(p, RaceRoots)
  \/ \E p \in Procs : InsertWrapper(p)
  \/ \E p \in Procs : AttachDetector(p)
  \/ \E p \in Procs : BeginAddChild(p, RaceChildren)
  \/ \E p \in Procs : BeginRemove(p, RacePaths)
  \/ \E p \in Procs : DeleteWrapper(p)
  \/ \E p \in Procs : BeginAddCondition(p, RaceCondArgs)
  \/ \E p \in Procs : CheckCondition(p)
  \/ \E p \in Procs : SaveWrapper(p)

SpecRace == InitRace /\ [][NextRace]_vars

(***************************************************************************)
(* SpecLost: two callers that change the tree of the root A: they add and  *)
(* remove its child B and add conditions to A.                             *)
(***************************************************************************)
NextLost ==
  \/ \E p \in Procs : BeginAddRoot(p, RaceRoots)
  \/ \E p \in Procs : InsertWrapper(p)
  \/ \E p \in Procs : AttachDetector(p)
  \/ \E p \in Procs : BeginAddChild(p, RaceChildren)
  \/ \E p \in Procs : BeginRemove(p, LostPaths)
  \/ \E p \in Procs : BeginAddCondition(p, LostCondArgs)
  \/ \E p \in Procs : CheckCondition(p)
  \/ \E p \in Procs : SaveWrapper(p)

SpecLost == InitRace /\ [][NextLost]_vars

(***************************************************************************)
(* SpecTrip: conditions added to the root A and its child B and read back  *)
(* by name and tag.                                                        *)
(***************************************************************************)
TripNames == {<<"A">>, <<"B">>}

TripParents == {None, <<"A">>}

TripCondArgs ==
  CondArgs(OwnCondPaths, {<<SP, "n">>}, {<<"t">>}, {V1}, {<<"c">>}, {Y2020},
           {Y2020}, {Dec2020, DateTimeMax})

TripUpdateArgs ==
  CondArgs(OwnCondPaths, {<<"n", SP>>}, {<<"t">>}, {V1}, {<<"d">>}, {NoneT},
           {NoneT}, {NoneT})

TripQueryArgs ==
  [detector_id : OwnCondPaths, name : {<<SP, "n">>, <<"m">>},
   tag : {<<"t">>}]

NextTrip ==
  \/ AddDetector(TripNames, TripParents, MaxNodes)
  \/ RemoveDetector(OwnCondPaths)
  \/ AddCondition(TripCondArgs)
  \/ UpdateCondition(TripUpdateArgs)
  \/ GetConditionByNameAndTag(TripQueryArgs)

SpecTrip == Init /\ [][NextTrip]_vars

(***************************************************************************)
(* SpecFilter: the conditions of the root A and its child B read by name   *)
(* and by tag.                                                             *)
(***************************************************************************)
FilterCondArgs ==
  CondArgs(OwnCondPaths, {<<"n">>, <<"m">>}, {<<"t">>}, {V1}, {None},
           {Y2020}, {Y2020}, {DateTimeMax})
    \cup CondArgs(OwnCondPaths, {<<"n">>}, {<<"u">>}, {V1}, {None}, {Y2020},
                  {Y2020}, {DateTimeMax})

FilterNames == {<<"n", SP>>, <<"m">>}

FilterTags == {<<"t">>, <<SP, "u">>}

NextFilter ==
  \/ AddDetector(TripNames, TripParents, MaxNodes)
  \/ AddCondition(FilterCondArgs)
  \/ GetConditionsByName(OwnCondPaths, FilterNames)
  \/ GetConditionsByTag(OwnCondPaths, FilterTags)

SpecFilter == Init /\ [][NextFilter]_vars

(***************************************************************************)
(* SpecClock: conditions added to the root A with their timestamps left    *)
(* out, while the clock advances.                                          *)
(***************************************************************************)
ClockCondArgs ==
  [detector_id : RootA, name : {<<"n">>, <<"m">>}, tag : {<<"t">>, <<"u">>},
   values : {V1}]

NextClock ==
  \/ AddDetector(RootA, {None}, 1)
  \/ AddConditionOmitted(ClockCondArgs)
  \/ GetConditions(RootA)
  \/ Tick

SpecClock == Init /\ [][NextClock]_vars

(***************************************************************************)
(* Notions the properties are stated in.                                   *)
(***************************************************************************)
RECURSIVE SubNodes(_)
SubNodes(d) ==
  {d} \cup UNION {SubNodes(d.subdetectors[i]) : i \in 1..Len(d.subdetectors)}

\* every detector stored in any tree
AllDetectors(ws) ==
  UNION {SubNodes(ws[i].detector[1]) :
           i \in {k \in 1..Len(ws) : ws[k].detector # <<>>}}

AllConditions(ws) ==
  UNION {{d.conditions[i] : i \in 1..Len(d.conditions)} : d \in AllDetectors(ws)}

Elems(s) == {s[i] : i \in 1..Len(s)}

\* the timestamp a date argument denotes
TimeOf(x) ==
  CASE x = Y2020 -> <<2020, 1, 1, 0, 0, 0>>
    [] x = Jun2020 -> <<2020, 6, 1, 0, 0, 0>>
    [] x = Dec2020 -> <<2020, 12, 31, 0, 0, 0>>
    [] x = Y2021 -> <<2021, 1, 1, 0, 0, 0>>
    [] x = DateTimeMax -> <<9999, 12, 31, 23, 59, 59>>

\* t1 is not later than t2, on the days of a calendar of 12 months of 31
\* days and the seconds of the day
DayOf(t) == (t[1] * 12 + t[2]) * 31 + t[3]

SecondOfDay(t) == (t[4] * 60 + t[5]) * 60 + t[6]

NotLater(t1, t2) ==
  \/ DayOf(t1) < DayOf(t2)
  \/ DayOf(t1) = DayOf(t2) /\ SecondOfDay(t1) <= SecondOfDay(t2)

(***************************************************************************)
(* C1: no detector ever holds two conditions with the same (name, tag),    *)
(* compared after whitespace stripping; add_condition with a (name, tag)   *)
(* the detector already has fails with AlreadyExists (ValueError) and adds *)
(* nothing; add_condition with a name the detector has under another tag   *)
(* succeeds and get_conditions then returns the old conditions and the new *)
(* one.                                                                    *)
(***************************************************************************)
C1_UniqueNameTag(ws) ==
  \A d \in AllDetectors(ws) :
    \A i, j \in 1..Len(d.conditions) :
      (/\ sanitize_str(d.conditions[i].name) = sanitize_str(d.conditions[j].name)
       /\ sanitize_str(d.conditions[i].tag) = sanitize_str(d.conditions[j].tag))
        => i = j

C1_HasKey(d, name, tag) ==
  \E c \in Elems(d.conditions) :
    /\ sanitize_str(c.name) = sanitize_str(name)
    /\ sanitize_str(c.tag) = sanitize_str(tag)

C1_HasName(d, name) ==
  \E c \in Elems(d.conditions) : sanitize_str(c.name) = sanitize_str(name)

C1_Step ==
  /\ C1_UniqueNameTag(wrappers')
  /\ result'.op = "add_condition" =>
       LET a == result'.args
           before == get_detector(wrappers, a.detector_id)
           after == get_conditions(wrappers', a.detector_id)
       IN before.outcome = "ok" =>
            /\ C1_HasKey(before.value[1], a.name, a.tag) =>
                 /\ result'.outcome = "ValueError"
                 /\ result'.err = "AlreadyExists"
                 /\ wrappers' = wrappers
            /\ (C1_HasName(before.value[1], a.name)
                  /\ ~C1_HasKey(before.value[1], a.name, a.tag)) =>
                 /\ result'.outcome = "ok"
                 /\ Len(after.value) = Len(before.value[1].conditions) + 1
                 /\ SubSeq(after.value, 1, Len(after.value) - 1)
                      = before.value[1].conditions
                 /\ after.value[Len(after.value)].name = sanitize_str(a.name)
                 /\ after.value[Len(after.value)].tag = sanitize_str(a.tag)

\* C1: after every call no detector holds two conditions with the same
\* stripped (name, tag); add_condition with a (name, tag) already present fails
\* with AlreadyExists and adds nothing; with the same name and another tag it
\* succeeds and get_conditions returns the old conditions and the new one
C1_ConditionUniqueness == [][C1_Step]_vars

\* a padded (name, tag) is refused on a detector that holds the name twice
C1_Witness ==
  /\ result.op = "add_condition"
  /\ result.err = "AlreadyExists"
  /\ result.args.name # sanitize_str(result.args.name)
  /\ \E d \in AllDetectors(wrappers) :
       /\ Len(d.conditions) = 2
       /\ d.conditions[1].name = d.conditions[2].name
       /\ d.conditions[1].tag # d.conditions[2].tag

(***************************************************************************)
(* C2: every stored condition has valid_since <= valid_until, whichever of *)
(* valid_since and valid_until an update supplies.                         *)
(***************************************************************************)
\* C2: every stored condition has valid_since <= valid_until
C2_ValidInterval ==
  \A c \in AllConditions(wrappers) : NotLater(c.valid_since, c.valid_until)

(***************************************************************************)
(* C3: within one detector no two conditions share name and collected_at,  *)
(* so get_condition_by_name_and_collection_date on an existing detector    *)
(* returns one condition or None and never fails.                          *)
(***************************************************************************)
\* C3: (name, collected_at) is unique within a detector, and
\* get_condition_by_name_and_collection_date returns one condition or None
C3_UniqueNameCollectedAt ==
  /\ \A d \in AllDetectors(wrappers) :
       \A i, j \in 1..Len(d.conditions) :
         (/\ d.conditions[i].name = d.conditions[j].name
          /\ d.conditions[i].collected_at = d.conditions[j].collected_at)
           => i = j
  /\ (/\ result.op = "get_condition_by_name_and_collection_date"
      /\ get_detector(wrappers, result.args.detector_id).outcome = "ok")
       => result.outcome = "ok" /\ Len(result.value) <= 1

(***************************************************************************)
(* C4: root detector names are pairwise distinct and the children of one   *)
(* detector have pairwise distinct names; add_detector for an existing     *)
(* root or an existing child of the parent fails with AlreadyExists        *)
(* (ValueError) and adds no node; otherwise the new node becomes the last  *)
(* child of the parent.                                                    *)
(***************************************************************************)
C4_RootsDistinct(ws) ==
  \A i, j \in 1..Len(ws) :
    (ws[i].name # None /\ ws[i].name = ws[j].name) => i = j

C4_SiblingsDistinct(ws) ==
  \A d \in AllDetectors(ws) :
    \A i, j \in 1..Len(d.subdetectors) :
      d.subdetectors[i].name = d.subdetectors[j].name => i = j

C4_AddStep ==
  (/\ result'.op = "add_detector"
   /\ result'.args[1] # <<>>
   /\ \A k \in 1..Len(result'.args[1]) : result'.args[1][k] # SL) =>
    LET name == sanitize_str(result'.args[1])
        parent_id == result'.args[2]
    IN IF parent_id = None \/ parent_id = <<>>
         THEN IF \E i \in 1..Len(wrappers) : wrappers[i].name = name
                THEN /\ result'.outcome = "ValueError"
                     /\ result'.err = "AlreadyExists"
                     /\ wrappers' = wrappers
                ELSE /\ result'.outcome = "ok"
                     /\ wrappers' = Append(wrappers,
                          [wrappers'[Len(wrappers')] EXCEPT
                             !.name = name, !.detector = <<Detector(name)>>])
         ELSE LET parent == get_detector(wrappers, parent_id)
                  after == get_detector(wrappers', parent_id)
              IN parent.outcome = "ok" =>
                   IF \E c \in Elems(parent.value[1].subdetectors) : c.name = name
                     THEN /\ result'.outcome = "ValueError"
                          /\ result'.err = "AlreadyExists"
                          /\ wrappers' = wrappers
                     ELSE /\ result'.outcome = "ok"
                          /\ after.value[1].subdetectors
                               = Append(parent.value[1].subdetectors,
                                        Detector(name))

C4_Step ==
  /\ C4_RootsDistinct(wrappers')
  /\ C4_SiblingsDistinct(wrappers')
  /\ C4_AddStep

\* C4: root names and sibling names stay pairwise distinct; add_detector with a
\* name already taken fails with AlreadyExists and adds no node, and otherwise
\* appends the new node as the last child of the parent
C4_SiblingNamesUnique == [][C4_Step]_vars

\* a padded name is refused under a parent that has a child of that name
C4_Witness ==
  /\ result.op = "add_detector"
  /\ result.err = "AlreadyExists"
  /\ result.args[1] = <<SP, "A">>
  /\ result.args[2] \notin {None, <<>>}

(***************************************************************************)
(* C5: get_conditions_by_name_and_validity returns exactly the conditions  *)
(* of the detector that have the requested name and whose validity window  *)
(* contains start and, when end is given, also end, in storage order; None *)
(* when no condition qualifies; InvalidInterval (ValueError) when          *)
(* start > end.                                                            *)
(***************************************************************************)
C5_Qualifies(c, a) ==
  /\ c.name = sanitize_str(a.name)
  /\ NotLater(c.valid_since, TimeOf(a.valid_since))
  /\ NotLater(TimeOf(a.valid_since), c.valid_until)
  /\ a.valid_until # NoneT =>
       /\ NotLater(c.valid_since, TimeOf(a.valid_until))
       /\ NotLater(TimeOf(a.valid_until), c.valid_until)

\* value is the subsequence of conds at the positions in S
C5_IsSelection(value, conds, S) ==
  \E f \in [1..Len(value) -> 1..Len(conds)] :
    /\ \A i, j \in 1..Len(value) : i < j => f[i] < f[j]
    /\ \A i \in 1..Len(value) : value[i] = conds[f[i]]
    /\ S = {f[i] : i \in 1..Len(value)}

\* C5: get_conditions_by_name_and_validity returns exactly the conditions of the
\* name whose validity window contains start and (when given) end, None when
\* there is none, and fails with InvalidInterval when start > end
C5_ValidityQuery ==
  result.op = "get_conditions_by_name_and_validity" =>
    LET a == result.args
        det == get_detector(wrappers, a.detector_id)
        conds == det.value[1].conditions
    IN IF a.valid_until # NoneT
            /\ ~NotLater(TimeOf(a.valid_since), TimeOf(a.valid_until))
         THEN result.outcome = "ValueError" /\ result.err = "InvalidInterval"
         ELSE det.outcome = "ok" =>
                /\ result.outcome = "ok"
                /\ C5_IsSelection(result.value, conds,
                     {k \in 1..Len(conds) : C5_Qualifies(conds[k], a)})

\* a condition valid 2020-01-01 .. 2020-12-31 is returned for 2020-06-01
C5_Witness ==
  /\ result.op = "get_conditions_by_name_and_validity"
  /\ result.outcome = "ok"
  /\ result.args.valid_since = Jun2020
  /\ Len(result.value) = 1
  /\ result.value[1].valid_since = <<2020, 1, 1, 0, 0, 0>>
  /\ result.value[1].valid_until = <<2020, 12, 31, 0, 0, 0>>

(***************************************************************************)
(* Paths as sequences of segments.                                         *)
(***************************************************************************)
Segs == {<<"A">>, <<"B">>}

MaxDepth == 4

SegSeqs == UNION {[1..n -> Segs] : n \in 1..MaxDepth}

IsPrefix(p, q) == Len(p) <= Len(q) /\ SubSeq(q, 1, Len(p)) = p

\* the detectors of the tree under d that the names lead to
RECURSIVE Descend(_, _)
Descend(d, names) ==
  IF names = <<>> THEN {d}
  ELSE UNION {Descend(c, Tail(names)) :
                c \in {x \in Elems(d.subdetectors) : x.name = Head(names)}}

RootsNamed(ws, name) ==
  {ws[i].detector[1] : i \in {k \in 1..Len(ws) :
                                 ws[k].name = name /\ ws[k].detector # <<>>}}

\* the detectors the segments segs lead to
NodesAt(ws, segs) ==
  UNION {Descend(r, Tail(segs)) : r \in RootsNamed(ws, Head(segs))}

\* the first segment of segs that leads nowhere
FirstMissing(ws, segs) ==
  CHOOSE k \in 1..Len(segs) :
    /\ NodesAt(ws, SubSeq(segs, 1, k)) = {}
    /\ \A j \in 1..(k - 1) : NodesAt(ws, SubSeq(segs, 1, j)) # {}

(***************************************************************************)
(* C6 as claimed: resolving a path whose segments all exist returns the    *)
(* node of the last segment; otherwise it fails with NotFound (ValueError) *)
(* and the error reports the requested path up to and including the first  *)
(* missing segment.                                                        *)
(***************************************************************************)
\* C6 (as claimed): a failed resolution reports the requested path up to and
\* including the first missing segment
C6_ReportsPrefix ==
  (/\ result.op = "get_detector"
   /\ result.args[1] # <<>>
   /\ RootsNamed(wrappers, split_detector_names(result.args[1])[1]) # {}) =>
    LET segs == split_detector_names(result.args[1])
    IN IF NodesAt(wrappers, segs) # {}
         THEN result.outcome = "ok" /\ Elems(result.value) = NodesAt(wrappers, segs)
         ELSE /\ result.outcome = "ValueError"
              /\ result.err = "NotFound"
              /\ result.path = join(SubSeq(segs, 1, FirstMissing(wrappers, segs)))

(***************************************************************************)
(* C6 as amended: resolving a path whose segments all exist returns the    *)
(* node of the last segment; otherwise get_detector fails with NotFound    *)
(* (ValueError) and its error reports the whole requested path, stripped   *)
(* of outer blanks and slashes, while the error of the resolver            *)
(* __get_detector reports the segments after the root up to and including  *)
(* the first missing one.                                                  *)
(***************************************************************************)
\* C6 (as amended): a failed get_detector reports the whole requested path, the
\* resolver the segments after the root up to the first missing one
C6_ReportsRequestedPath ==
  (/\ result.op = "get_detector"
   /\ result.args[1] # <<>>
   /\ RootsNamed(wrappers, split_detector_names(result.args[1])[1]) # {}) =>
    LET segs == split_detector_names(result.args[1])
        w == CHOOSE i \in 1..Len(wrappers) : wrappers[i].name = segs[1]
        inner == get_detector_node(wrappers[w], result.args[1])
    IN IF NodesAt(wrappers, segs) # {}
         THEN result.outcome = "ok" /\ Elems(result.value) = NodesAt(wrappers, segs)
         ELSE /\ result.outcome = "ValueError"
              /\ result.err = "NotFound"
              /\ result.path = join(segs)
              /\ inner.outcome = "ValueError"
              /\ inner.path = join(SubSeq(segs, 2, FirstMissing(wrappers, segs)))

\* a path of three segments whose second segment is the missing one
C6_Witness ==
  /\ result.op = "get_detector"
  /\ result.err = "NotFound"
  /\ Len(split_detector_names(result.args[1])) = 3
  /\ RootsNamed(wrappers, split_detector_names(result.args[1])[1]) # {}
  /\ FirstMissing(wrappers, split_detector_names(result.args[1])) = 2

(***************************************************************************)
(* C7: remove_detector on a path of one segment deletes the whole wrapper: *)
(* afterwards the store holds no wrapper for that root, whatever subtree   *)
(* the root had, the root is not in list_detectors(), and get_detector on  *)
(* the root or a former descendant fails with NotFound.                    *)
(***************************************************************************)
C7_Step ==
  (/\ result'.op = "remove_detector"
   /\ result'.outcome = "ok"
   /\ Len(split_detector_names(result'.args[1])) = 1) =>
    LET root == split_detector_names(result'.args[1])[1]
        old == wrappers[CHOOSE i \in 1..Len(wrappers) : wrappers[i].name = root]
    IN /\ \A i \in 1..Len(wrappers') :
            wrappers'[i].id # old.id /\ wrappers'[i].name # root
       /\ root \notin Elems(list_detectors(wrappers', None).value)
       /\ \A q \in SegSeqs :
            Head(q) = root =>
              LET r == get_detector(wrappers', join(q))
              IN r.outcome = "ValueError" /\ r.err = "NotFound"

\* C7: after remove_detector on a root the store holds no wrapper for it and
\* neither the root nor a former descendant resolves
C7_RootRemovalDeletesWrapper == [][C7_Step]_vars

(***************************************************************************)
(* C8: remove_detector(P/c) on an existing non-root node removes child c   *)
(* of P with its whole subtree and the conditions in it: afterwards no     *)
(* path with prefix P/c resolves, and every other detector (the siblings   *)
(* of c in their order, the ancestors, the other roots) and its conditions *)
(* are as before.                                                          *)
(***************************************************************************)
ChildNames(d) == [i \in 1..Len(d.subdetectors) |-> d.subdetectors[i].name]

C8_Step ==
  (/\ result'.op = "remove_detector"
   /\ result'.outcome = "ok"
   /\ Len(split_detector_names(result'.args[1])) >= 2
   /\ get_detector(wrappers, result'.args[1]).outcome = "ok") =>
    LET segs == split_detector_names(result'.args[1])
        c == segs[Len(segs)]
    IN /\ \A q \in SegSeqs :
            LET o == get_detector(wrappers, join(q))
                n == get_detector(wrappers', join(q))
                LOCAL_Keep(d) == d.name # c
            IN IF IsPrefix(segs, q)
                 THEN n.outcome = "ValueError" /\ n.err = "NotFound"
               ELSE IF IsPrefix(q, segs)
                 THEN /\ n.outcome = "ok"
                      /\ n.value[1].name = o.value[1].name
                      /\ n.value[1].conditions = o.value[1].conditions
                      /\ IF Len(q) = Len(segs) - 1
                           THEN n.value[1].subdetectors
                                  = SelectSeq(o.value[1].subdetectors, LOCAL_Keep)
                           ELSE ChildNames(n.value[1]) = ChildNames(o.value[1])
               ELSE n = o
       /\ Len(wrappers') = Len(wrappers)
       /\ \A i \in 1..Len(wrappers) :
            wrappers[i].name # segs[1] => wrappers'[i] = wrappers[i]

\* C8: remove_detector(P/c) on an existing node removes exactly the subtree of
\* c; every other detector and its conditions are unchanged
C8_RemovesExactlySubtree == [][C8_Step]_vars

\* a child was removed from a parent that keeps a sibling and a condition,
\* next to another root
C8_Witness ==
  /\ result.op = "remove_detector"
  /\ result.outcome = "ok"
  /\ result.args[1] = <<"A", SL, "B">>
  /\ Len(wrappers) = 2
  /\ LET a == get_detector(wrappers, <<"A">>)
     IN /\ a.outcome = "ok"
        /\ ChildNames(a.value[1]) = <<<<"A">>>>
        /\ a.value[1].conditions # <<>>

(***************************************************************************)
(* C9: remove_detector fails with NotFound (ValueError) whenever the       *)
(* target path does not exist, be it the root, an intermediate segment or  *)
(* the last segment that is missing, and then leaves the store unchanged.  *)
(***************************************************************************)
C9_Step ==
  (/\ result'.op = "remove_detector"
   /\ result'.args[1] # <<>>
   /\ NodesAt(wrappers, split_detector_names(result'.args[1])) = {}) =>
    /\ result'.outcome = "ValueError"
    /\ result'.err = "NotFound"
    /\ wrappers' = wrappers

\* C9: remove_detector of a path that does not exist fails with NotFound and
\* leaves the store unchanged
C9_RemoveMissingFails == [][C9_Step]_vars

(***************************************************************************)
(* C10: update_condition_by_name_and_tag changes only the fields passed as *)
(* non-null among type, valid_since and valid_until; a field passed as     *)
(* None keeps its stored value, the stored type included; name, tag,       *)
(* values and collected_at of the target, every other condition and the    *)
(* tree are unchanged.                                                     *)
(***************************************************************************)
C10_Updated(c, a) ==
  [c EXCEPT
     !.type = IF a.type = None THEN @ ELSE sanitize_str(a.type),
     !.valid_since = IF a.valid_since = NoneT THEN @ ELSE TimeOf(a.valid_since),
     !.valid_until = IF a.valid_until = NoneT THEN @ ELSE TimeOf(a.valid_until)]

C10_Step ==
  (result'.op = "update_condition_by_name_and_tag" /\ result'.outcome = "ok") =>
    LET a == result'.args
        o == get_detector(wrappers, a.detector_id).value[1]
        n == get_detector(wrappers', a.detector_id).value[1]
    IN /\ Len(n.conditions) = Len(o.conditions)
       /\ \A k \in 1..Len(o.conditions) :
            n.conditions[k] =
              IF /\ o.conditions[k].name = sanitize_str(a.name)
                 /\ o.conditions[k].tag = sanitize_str(a.tag)
                THEN C10_Updated(o.conditions[k], a)
                ELSE o.conditions[k]
       /\ n.name = o.name
       /\ n.subdetectors = o.subdetectors
       /\ \A d \in AllDetectors(wrappers) \ {o} : d \in AllDetectors(wrappers')

\* C10: update_condition_by_name_and_tag changes only the fields passed as
\* non-null among type, valid_since, valid_until, and nothing else
C10_UpdateChangesOnlyGivenFields == [][C10_Step]_vars

(***************************************************************************)
(* C11: list_detectors with no or an empty parent returns the names of all *)
(* root detectors in the store, each a path of one segment;                *)
(* list_detectors(parent) for an existing path returns the paths           *)
(* parent/childName of the direct children of parent, in the order the     *)
(* children are stored (C4 appends, C8 removes in place: the order of      *)
(* addition), after any sequence of add_detector and remove_detector.      *)
(***************************************************************************)
C11_IsSegment(name) ==
  /\ name # None
  /\ name # <<>>
  /\ \A k \in 1..Len(name) : name[k] # SL

\* C11: list_detectors() returns the names of all roots, each one segment, and
\* list_detectors(parent) the paths parent/child of the direct children of an
\* existing parent in the order they were added
C11_ListDetectors ==
  result.op = "list_detectors" =>
    IF result.args[1] \in {None, <<>>}
      THEN /\ result.outcome = "ok"
           /\ Len(result.value) = Len(wrappers)
           /\ \A i \in 1..Len(wrappers) :
                /\ C11_IsSegment(result.value[i])
                /\ result.value[i] = wrappers[i].name
      ELSE LET segs == split_detector_names(sanitize_path(result.args[1]))
           IN NodesAt(wrappers, segs) # {} =>
                /\ result.outcome = "ok"
                /\ \E d \in NodesAt(wrappers, segs) :
                     result.value =
                       [i \in 1..Len(d.subdetectors) |->
                          join(segs) \o <<SL>> \o d.subdetectors[i].name]

\* the same, in the stores that hold no wrapper re-created by the save() of
\* remove_detector (C7)
C11_ListDetectorsOfNamedRoots ==
  (\A i \in 1..Len(wrappers) : wrappers[i].name # None) => C11_ListDetectors

(***************************************************************************)
(* C12: get_conditions(path) on an existing detector returns the           *)
(* conditions attached to that node, and no others, in the order they are  *)
(* stored (add_condition appends, C1: the order of addition); None (the    *)
(* empty value) when the node has none; and it fails with NotFound         *)
(* (ValueError) when the path does not exist.                              *)
(***************************************************************************)
\* C12: get_conditions returns the conditions of exactly the node of the path in
\* the order they were added, None when it has none, and fails with NotFound
\* when the path does not exist
C12_GetConditions ==
  result.op = "get_conditions" =>
    LET segs == split_detector_names(result.args[1])
    IN IF NodesAt(wrappers, segs) = {}
         THEN result.outcome = "ValueError" /\ result.err = "NotFound"
         ELSE /\ result.outcome = "ok"
              /\ \E d \in NodesAt(wrappers, segs) : result.value = d.conditions

\* the conditions of A/B are returned while its parent A holds another one
C12_Witness ==
  /\ result.op = "get_conditions"
  /\ result.args[1] = <<"A", SL, "B">>
  /\ result.outcome = "ok"
  /\ Len(result.value) = 1
  /\ LET a == get_detector(wrappers, <<"A">>).value[1]
     IN /\ Len(a.conditions) = 1
        /\ a.conditions # result.value

(***************************************************************************)
(* C13: every detector name stored in a tree is a non-empty string without *)
(* '/'; add_detector rejects a name that is empty or contains '/' and      *)
(* creates nothing, and no accepted name, one made of or padded with       *)
(* blanks included, is stored as the empty name.  A detector that has no   *)
(* name at all (the document of C7) is not counted here.                   *)
(***************************************************************************)
C13_HasSlash(name) == \E k \in 1..Len(name) : name[k] = SL

C13_Step ==
  /\ \A d \in AllDetectors(wrappers') :
       d.name # <<>> /\ ~C13_HasSlash(d.name)
  /\ (/\ result'.op = "add_detector"
      /\ (result'.args[1] = <<>> \/ C13_HasSlash(result'.args[1]))) =>
       /\ result'.outcome = "ValueError"
       /\ result'.err = "InvalidValue"
       /\ wrappers' = wrappers

\* C13: every stored detector name is non-empty and has no '/'; add_detector
\* rejects an empty name and a name with '/' and creates nothing
C13_NamesAreValid == [][C13_Step]_vars

(***************************************************************************)
(* The calls of the run database a claim is about.                         *)
(***************************************************************************)
\* the call has a non-empty id and bounds with start <= end
ValidInterval(a) == NotLater(TimeOf(a.start_time), TimeOf(a.end_time))

\* the interval of the call a lies within the interval of the call b
NestedIn(a, b) ==
  /\ NotLater(TimeOf(b.start_time), TimeOf(a.start_time))
  /\ NotLater(TimeOf(a.end_time), TimeOf(b.end_time))

(***************************************************************************)
(* C14: for every valid (id, start, end) with start <= end, the times      *)
(* given as texts or as datetimes, add_fill succeeds and get_fill(id) then *)
(* returns a fill with that id and with start_time and end_time equal to   *)
(* the given ones at the precision of a second.                            *)
(***************************************************************************)
C14_Step ==
  (/\ result'.op = "add_fill"
   /\ result'.args.fill_id # <<>>
   /\ ValidInterval(result'.args)) =>
    /\ result'.outcome = "ok"
    /\ LET g == get_fill(result'.args.fill_id)
       IN /\ g.outcome = "ok"
          /\ g.value[1].fill_id = result'.args.fill_id
          /\ g.value[1].start_time = TimeOf(result'.args.start_time)
          /\ g.value[1].end_time = TimeOf(result'.args.end_time)

\* C14: add_fill with a valid id and start <= end succeeds and get_fill then
\* returns the fill with the same id and the same bounds to the second
C14_FillRoundTrip == [][C14_Step]_vars

(***************************************************************************)
(* C15: Fill, Run and File ids are unique: add_fill, add_run and add_file  *)
(* with an id that is already present, here the id the valid add just      *)
(* before it added, fail with AlreadyExists (ValueError) and leave the     *)
(* store unchanged.                                                        *)
(***************************************************************************)
\* the id of the entity the call op(a) adds
AddedId(op, a) ==
  CASE op = "add_fill" -> a.fill_id
    [] op = "add_run" -> a.run_id
    [] op = "add_file" -> a.file_id

C15_Step ==
  (/\ result.op \in {"add_fill", "add_run", "add_file"}
   /\ result'.op = result.op
   /\ AddedId(result.op, result.args) # <<>>
   /\ ValidInterval(result.args)
   /\ ValidInterval(result'.args)
   /\ AddedId(result'.op, result'.args) = AddedId(result.op, result.args)) =>
    /\ result'.outcome = "ValueError"
    /\ result'.err = "AlreadyExists"
    /\ wrappers' = wrappers

\* C15: add_fill, add_run and add_file with an id that was just added fail with
\* AlreadyExists and change nothing, so there is one entity per id
C15_UniqueIds == [][C15_Step]_vars

(***************************************************************************)
(* C16: add_run succeeds when the interval of the run lies within the      *)
(* interval of its fill, identical bounds included, and fails with         *)
(* IntervalViolation (ValueError, InvalidInterval), storing nothing, when  *)
(* the run ends after or starts before the fill; add_file applies the same *)
(* test against its run.  The parent is the one the valid add just before  *)
(* the call added.                                                         *)
(***************************************************************************)
\* the call op'(a') adds a child of the entity the call op(a) adds
AddsChildOf(op1, a1, op, a) ==
  \/ op = "add_fill" /\ op1 = "add_run" /\ a.fill_id # <<>>
       /\ a1.run_id # <<>> /\ a1.fill_id = a.fill_id
  \/ op = "add_run" /\ op1 = "add_file" /\ a.run_id # <<>>
       /\ a1.run_id = a.run_id

C16_Step ==
  (/\ result.op \in {"add_fill", "add_run"}
   /\ result'.op \in {"add_run", "add_file"}
   /\ AddsChildOf(result'.op, result'.args, result.op, result.args)
   /\ ValidInterval(result.args)
   /\ ValidInterval(result'.args)) =>
    IF NestedIn(result'.args, result.args)
      THEN result'.outcome = "ok"
      ELSE /\ result'.outcome = "ValueError"
           /\ result'.err = "InvalidInterval"
           /\ wrappers' = wrappers

\* C16: add_run (add_file) succeeds when its interval lies within the interval
\* of its fill (run) and fails with IntervalViolation otherwise
C16_IntervalNesting == [][C16_Step]_vars

(***************************************************************************)
(* C17: add_run fails with NotFound (ValueError) and stores no run when    *)
(* its fill_id names no fill that get_fill finds, add_file likewise when   *)
(* its run_id names no run; when the parent exists and the interval is     *)
(* valid and nested the call succeeds and the new entity records the id of *)
(* the parent.                                                             *)
(***************************************************************************)
\* the parent the call op(a) names: what get_fill or get_run says of it
ParentOf(op, a) ==
  IF op = "add_run" THEN get_fill(a.fill_id) ELSE get_run(a.run_id)

\* the entity the call op(a) adds: what get_run or get_file says of it
AddedBy(op, a) ==
  IF op = "add_run" THEN get_run(a.run_id) ELSE get_file(a.file_id)

C17_Step ==
  (/\ result'.op \in {"add_run", "add_file"}
   /\ AddedId(result'.op, result'.args) # <<>>
   /\ ValidInterval(result'.args)) =>
    IF ParentOf(result'.op, result'.args).outcome # "ok"
      THEN /\ result'.outcome = "ValueError"
           /\ result'.err = "NotFound"
           /\ wrappers' = wrappers
      ELSE LET parent == ParentOf(result'.op, result'.args).value[1]
           IN (/\ TsLeq(parent.start_time, TimeOf(result'.args.start_time))
               /\ TsLeq(TimeOf(result'.args.end_time), parent.end_time)) =>
                /\ result'.outcome = "ok"
                /\ AddedBy(result'.op, result'.args).outcome = "ok"
                /\ IF result'.op = "add_run"
                     THEN AddedBy(result'.op, result'.args).value[1].fill_id
                            = result'.args.fill_id
                     ELSE AddedBy(result'.op, result'.args).value[1].run_id
                            = result'.args.run_id

\* C17: add_run (add_file) fails with NotFound and stores nothing when its fill
\* (run) does not exist, and records the parent id when it succeeds
C17_ParentMustExist == [][C17_Step]_vars

(***************************************************************************)
(* C18: a Fill, Run or File id is absent, then active after a successful   *)
(* add, then absent again after the remove: after add_fill(F) and          *)
(* add_run(R, F) with identical bounds get_run(R) returns the run; after   *)
(* remove_run(R) and remove_fill(F) get_run(R) and get_fill(F) fail with   *)
(* NotFound, and the ids can be added again.                               *)
(***************************************************************************)
\* what the getter says of the id a remove call names
RemovedBy(op, id) ==
  CASE op = "remove_fill" -> get_fill(id)
    [] op = "remove_run" -> get_run(id)
    [] op = "remove_file" -> get_file(id)

C18_Step ==
  /\ (/\ result.op = "add_fill"
      /\ result.args.fill_id # <<>>
      /\ ValidInterval(result.args)
      /\ result'.op = "add_run"
      /\ result'.args.run_id # <<>>
      /\ result'.args.fill_id = result.args.fill_id
      /\ result'.args.start_time = result.args.start_time
      /\ result'.args.end_time = result.args.end_time) =>
       /\ result'.outcome = "ok"
       /\ get_run(result'.args.run_id).outcome = "ok"
       /\ get_run(result'.args.run_id).value[1].run_id = result'.args.run_id
  /\ (/\ result'.op \in {"remove_fill", "remove_run", "remove_file"}
      /\ result'.args[1] \notin {<<>>, NotStr}) =>
       /\ result'.outcome = "ok"
       /\ RemovedBy(result'.op, result'.args[1]).outcome = "ValueError"
       /\ RemovedBy(result'.op, result'.args[1]).err = "NotFound"
  /\ (/\ result.op = "remove_fill"
      /\ result'.op = "add_fill"
      /\ result'.args.fill_id = result.args[1]
      /\ result'.args.fill_id # <<>>
      /\ ValidInterval(result'.args)) =>
       /\ result'.outcome = "ok"
       /\ get_fill(result'.args.fill_id).outcome = "ok"

\* C18: an id is active after its add and absent after its remove: get_run
\* returns the run added under a fill, the getters fail with NotFound after the
\* removes, and a removed id can be added again
C18_Lifecycle == [][C18_Step]_vars

(***************************************************************************)
(* C19: add_attributes_to_fill, _run and _file append one Attribute for    *)
(* each non-null named argument whose name the entity does not have, and   *)
(* for a name it has they raise nothing and keep the first value: after    *)
(* any attribute adds the entity has one Attribute per name, shown by the  *)
(* getter.  The entity is the one the valid add just before added, or the  *)
(* one the attribute add just before was for.                              *)
(***************************************************************************)
AttributeOps ==
  {"add_attributes_to_fill", "add_attributes_to_run", "add_attributes_to_file"}

\* the entity, the attribute name and the attribute value of an attribute add
OwnerId(op, a) ==
  CASE op = "add_attributes_to_fill" -> a.fill_id
    [] op = "add_attributes_to_run" -> a.run_id
    [] op = "add_attributes_to_file" -> a.file_id

Owner(op, a) ==
  CASE op = "add_attributes_to_fill" -> get_fill(a.fill_id)
    [] op = "add_attributes_to_run" -> get_run(a.run_id)
    [] op = "add_attributes_to_file" -> get_file(a.file_id)

AttributeName(op) ==
  CASE op = "add_attributes_to_fill" -> <<"e", "n", "e", "r", "g", "y">>
    [] op = "add_attributes_to_run" ->
         <<"n", "b", "_", "e", "v", "e", "n", "t", "s">>
    [] op = "add_attributes_to_file" -> <<"s", "i", "z", "e">>

AttributeValue(op, a) ==
  CASE op = "add_attributes_to_fill" -> a.energy
    [] op = "add_attributes_to_run" -> a.nb_events
    [] op = "add_attributes_to_file" -> a.size

\* the add that makes the entity of the attribute add op
AddOf(op) ==
  CASE op = "add_attributes_to_fill" -> "add_fill"
    [] op = "add_attributes_to_run" -> "add_run"
    [] op = "add_attributes_to_file" -> "add_file"

C19_Named(attributes, name) ==
  {i \in 1..Len(attributes) : attributes[i].name = name}

C19_Step ==
  (/\ result'.op \in AttributeOps
   /\ AttributeValue(result'.op, result'.args) # None
   /\ \/ /\ result.op = AddOf(result'.op)
         /\ ValidInterval(result.args)
         /\ AddedId(result.op, result.args)
              = OwnerId(result'.op, result'.args)
      \/ /\ result.op = result'.op
         /\ OwnerId(result.op, result.args)
              = OwnerId(result'.op, result'.args)
         /\ AttributeValue(result.op, result.args) # None) =>
    /\ result'.outcome = "ok"
    /\ Owner(result'.op, result'.args).outcome = "ok"
    /\ LET attributes == Owner(result'.op, result'.args).value[1].attributes
           named == C19_Named(attributes, AttributeName(result'.op))
       IN /\ Cardinality(named) = 1
          /\ \A i \in named :
               attributes[i].values =
                 IF result.op = result'.op
                   THEN AttributeValue(result.op, result.args)
                   ELSE AttributeValue(result'.op, result'.args)

\* C19: an attribute add appends the attribute when its name is new and keeps
\* the first value when it is not, so the getter shows one attribute per name
C19_AttributeAddIfAbsent == [][C19_Step]_vars

(***************************************************************************)
(* C20: list_fills, list_runs and list_files return the ids of the stored  *)
(* entities whose parent is the given one, if one is given, that start at  *)
(* or after start, if given, and end at or before end, if given; every     *)
(* stored id without filters; and fail with InvalidInterval when both      *)
(* bounds are given and start > end.  A stored entity is one the getter    *)
(* returns.                                                                *)
(***************************************************************************)
ListOps == {"list_fills", "list_runs", "list_files"}

ListStart(op, a) == IF op = "list_fills" THEN a.start_date ELSE a.start_time

ListEnd(op, a) == IF op = "list_fills" THEN a.end_date ELSE a.end_time

\* what the getter says of the id, and the ids it is asked for
Listed(op, id) ==
  CASE op = "list_fills" -> get_fill(id)
    [] op = "list_runs" -> get_run(id)
    [] op = "list_files" -> get_file(id)

ListedIds(op) ==
  CASE op = "list_fills" -> FillIds
    [] op = "list_runs" -> RunIds
    [] op = "list_files" -> FileIds

ParentMatches(op, a, e) ==
  CASE op = "list_fills" -> TRUE
    [] op = "list_runs" -> a.fill_id = None \/ e.fill_id = a.fill_id
    [] op = "list_files" -> a.run_id = None \/ e.run_id = a.run_id

C20_Matching(op, a) ==
  {id \in ListedIds(op) :
     /\ Listed(op, id).outcome = "ok"
     /\ LET e == Listed(op, id).value[1]
        IN /\ ParentMatches(op, a, e)
           /\ ListStart(op, a) = NoneT
                \/ TsLeq(TimeOf(ListStart(op, a)), e.start_time)
           /\ ListEnd(op, a) = NoneT
                \/ TsLeq(e.end_time, TimeOf(ListEnd(op, a)))}

\* C20: the list calls return exactly the ids of the stored entities that pass
\* the parent, start and end filters, and fail with InvalidInterval when
\* start > end
C20_ListFilters ==
  result.op \in ListOps =>
    IF /\ ListStart(result.op, result.args) # NoneT
       /\ ListEnd(result.op, result.args) # NoneT
       /\ ~NotLater(TimeOf(ListStart(result.op, result.args)),
                    TimeOf(ListEnd(result.op, result.args)))
      THEN result.outcome = "ValueError" /\ result.err = "InvalidInterval"
      ELSE /\ result.outcome = "ok"
           /\ Len(result.value) = 1
           /\ Elems(result.value[1]) = C20_Matching(result.op, result.args)

(***************************************************************************)
(* C21: remove_run and remove_file fail with NotFound when the id is       *)
(* absent; remove_fill of an absent id returns without raising; a remove   *)
(* changes no other record.  An id is absent when its getter fails with    *)
(* NotFound.                                                               *)
(***************************************************************************)
C21_Step ==
  (/\ result'.op \in {"remove_fill", "remove_run", "remove_file"}
   /\ result'.args[1] \notin {<<>>, NotStr}
   /\ RemovedBy(result'.op, result'.args[1]).err = "NotFound") =>
    /\ wrappers' = wrappers
    /\ IF result'.op = "remove_fill"
         THEN result'.outcome = "ok"
         ELSE result'.outcome = "ValueError" /\ result'.err = "NotFound"

\* C21: remove_run and remove_file of an absent id fail with NotFound, and
\* remove_fill of an absent id returns without raising; nothing else changes
C21_RemoveAbsent == [][C21_Step]_vars

(***************************************************************************)
(* C22: construct_DB_API returns a MongoToCDBAPIAdapter when the           *)
(* configuration names the mongo backend, and raises NotImplementedError,  *)
(* constructing no adapter and opening no connection, when a readable,     *)
(* complete configuration names a db_type that is not supported.           *)
(***************************************************************************)
\* the configuration can be read and is complete: a YAML path (or none), a
\* file that opens, a db_type, its section, and every field of the section
ReadableComplete(cfg) ==
  /\ \/ cfg.path \in {None, <<>>}
     \/ split(cfg.path, DOT)[Len(split(cfg.path, DOT))]
          \in {<<"y", "m", "l">>, <<"y", "a", "m", "l">>}
  /\ cfg.readable
  /\ cfg.db_type \notin {Absent, None}
  /\ cfg.section
  /\ cfg.fields = Fields

ReturnsAdapter(r) ==
  /\ r.outcome = "ok"
  /\ Len(r.value) = 1
  /\ r.value[1].class = "MongoToCDBAPIAdapter"

NotSupported(r) == r.outcome = "NotImplementedError" /\ r.value = <<>>

\* C22 as stated: a db_type that is not an element of the supported list is
\* refused
C22_FactoryAsStated ==
  (result.op = "construct_DB_API" /\ ReadableComplete(result.args)) =>
    IF result.args.db_type \in supported_db_types
      THEN ReturnsAdapter(result)
      ELSE NotSupported(result)

\* C22: a readable, complete configuration gives a MongoToCDBAPIAdapter when
\* the lower-case form of its db_type is mongo, and NotImplementedError with no
\* adapter constructed when the lower-case form is not a supported type
C22_Factory ==
  (result.op = "construct_DB_API" /\ ReadableComplete(result.args)) =>
    IF lower(result.args.db_type) \in supported_db_types
      THEN ReturnsAdapter(result)
      ELSE NotSupported(result)

C22_Witness ==
  /\ result.op = "construct_DB_API"
  /\ ReadableComplete(result.args)
  /\ result.args.db_type = <<"s", "q", "l">>
  /\ NotSupported(result)

C22_WitnessMongo ==
  /\ result.op = "construct_DB_API"
  /\ ReadableComplete(result.args)
  /\ result.args.db_type = Mongo
  /\ ReturnsAdapter(result)

(***************************************************************************)
(* C23: a call of add_detector, remove_detector, add_condition or          *)
(* update_condition_by_name_and_tag that raises leaves the stored          *)
(* documents as they were.                                                 *)
(***************************************************************************)
Mutations ==
  {"add_detector", "remove_detector", "add_condition",
   "update_condition_by_name_and_tag"}

C23_Step ==
  (result'.op \in Mutations /\ result'.outcome # "ok") => wrappers' = wrappers

\* C23: every mutating call that raises leaves the store exactly as it was
\* before the call
C23_FailedCallsWriteNothing == [][C23_Step]_vars

\* a duplicate (name, tag) was refused on a detector that holds a condition
C23_Witness ==
  /\ result.op = "add_condition"
  /\ result.outcome = "ValueError"
  /\ result.err = "AlreadyExists"
  /\ TotalConds(wrappers) = 1

\* the other failures the property speaks of: each is reached on a store that
\* holds a detector
C23_Reached(op, exc, err) ==
  /\ result.op = op
  /\ result.outcome = exc
  /\ result.err = err
  /\ TotalNodes(wrappers) > 0

C23_WrongType == C23_Reached("add_detector", "TypeError", "InvalidArgumentType")

C23_EmptyId == C23_Reached("remove_detector", "ValueError", "InvalidValue")

C23_Slash == C23_Reached("add_detector", "ValueError", "InvalidValue")

C23_InvalidInterval == C23_Reached("add_condition", "ValueError", "InvalidInterval")

C23_InvalidFormat == C23_Reached("add_condition", "ValueError", "InvalidFormat")

C23_NotFound == C23_Reached("update_condition_by_name_and_tag", "ValueError", "NotFound")

C23_RemoveNotFound == C23_Reached("remove_detector", "ValueError", "NotFound")

C23_DuplicateDetector == C23_Reached("add_detector", "ValueError", "AlreadyExists")

(***************************************************************************)
(* C24: no stored detector has two conditions of one (name, tag), whatever *)
(* the interleaving of the reads and the writes of concurrent              *)
(* add_condition, add_detector and remove_detector calls on one tree.      *)
(***************************************************************************)
\* C24: under every interleaving of the reads, the duplicate check and the
\* write of concurrent calls, no stored detector holds two conditions of one
\* name and tag
C24_UniqueUnderInterleaving ==
  calls # <<>> => C1_UniqueNameTag(wrappers)

(***************************************************************************)
(* C25: when two concurrent mutations of one tree have each read the       *)
(* wrapper before the other writes, both return success and the stored     *)
(* tree holds the change of the later writer only; the trees of other      *)
(* roots are not touched.  The later writer is the call that saves a       *)
(* wrapper another caller has written since the call read it.              *)
(***************************************************************************)
\* p saves the list it changed, in a wrapper that was written since p read it
StaleSave(p) ==
  /\ calls[p].pc = "write"
  /\ calls[p].stale
  /\ calls'[p].pc = "idle"

StoredTree(ws, id) ==
  {ws[i].detector : i \in {k \in 1..Len(ws) : ws[k].id = id}}

OtherTrees(ws, id) == {ws[i] : i \in {k \in 1..Len(ws) : ws[k].id # id}}

\* the list field of the detector at idx of the stored document id
StoredList(ws, id, idx, field) ==
  {NodeAt(t[1], idx)[field] :
     t \in {u \in StoredTree(ws, id) : u # <<>> /\ PathExists(u[1], idx)}}

\* the stored tree with the list at idx left out
Besides(ws, id, idx, field) ==
  {SetPath(t[1], idx, field, <<>>) :
     t \in {u \in StoredTree(ws, id) : u # <<>> /\ PathExists(u[1], idx)}}

\* C25 as stated: the stored tree is the tree the later writer read, with its
\* change
C25_Step_AsStated ==
  \A p \in Procs :
    StaleSave(p) =>
      LET c == calls[p]
      IN /\ calls'[p].outcome = "ok"
         /\ StoredTree(wrappers', c.doc[1].id)
              = {<<SetPath(c.doc[1].detector[1], c.idx, c.field, c.value)>>}
         /\ OtherTrees(wrappers', c.doc[1].id) = OtherTrees(wrappers, c.doc[1].id)

C25_Step ==
  \A p \in Procs :
    StaleSave(p) =>
      LET c == calls[p]
          id == c.doc[1].id
      IN /\ calls'[p].outcome = "ok"
         /\ StoredList(wrappers', id, c.idx, c.field) = {c.value}
         /\ Besides(wrappers', id, c.idx, c.field)
              = Besides(wrappers, id, c.idx, c.field)
         /\ OtherTrees(wrappers', id) = OtherTrees(wrappers, id)

C26_RootCreationAtomic ==
  calls # <<>> =>
    /\ \A i \in 1..Len(wrappers) :
         wrappers[i].name # None => wrappers[i].detector # <<>>
    /\ \A i, j \in 1..Len(wrappers) :
         (wrappers[i].name # None /\ wrappers[i].name = wrappers[j].name)
           => i = j

\* the second half on its own: two wrappers of one name
C26_TwoRootsOfOneName ==
  \E i, j \in 1..Len(wrappers) :
    i # j /\ wrappers[i].name # None /\ wrappers[i].name = wrappers[j].name

(***************************************************************************)
(* C27: update_condition_by_name_and_tag fails with InvalidInterval when   *)
(* both bounds are given and valid_since > valid_until, whether or not the *)
(* detector exists; otherwise it fails with NotFound when the path does    *)
(* not exist or the detector has no condition of that name and tag.  The   *)
(* arguments are of the right types.                                       *)
(***************************************************************************)
C27_Step ==
  (/\ result'.op = "update_condition_by_name_and_tag"
   /\ result'.args.type # NotStr) =>
    LET a == result'.args
        detector == get_detector(wrappers, a.detector_id)
    IN IF /\ a.valid_since # NoneT /\ a.valid_until # NoneT
          /\ ~NotLater(TimeOf(a.valid_since), TimeOf(a.valid_until))
         THEN /\ result'.outcome = "ValueError"
              /\ result'.err = "InvalidInterval"
              /\ wrappers' = wrappers
       ELSE IF \/ detector.outcome # "ok"
               \/ ~C1_HasKey(detector.value[1], a.name, a.tag)
         THEN /\ result'.outcome = "ValueError"
              /\ result'.err = "NotFound"
              /\ wrappers' = wrappers
       ELSE result'.outcome = "ok"

\* C27: an update with valid_since > valid_until fails with InvalidInterval
\* even when the detector or the condition is missing, and an update of a
\* missing detector or condition fails with NotFound
C27_UpdateFailures == [][C27_Step]_vars

\* both faults at once: bounds in the wrong order, for a detector that does
\* not exist, next to one that does
C27_Witness ==
  /\ result.op = "update_condition_by_name_and_tag"
  /\ result.args.detector_id = <<"B">>
  /\ result.args.valid_since = Y2021
  /\ result.args.valid_until = Jun2020
  /\ result.args.type = None
  /\ result.err = "InvalidInterval"
  /\ get_detector(wrappers, <<"B">>).outcome # "ok"
  /\ get_detector(wrappers, <<"A">>).outcome = "ok"

C27_WitnessNotFound ==
  /\ result.op = "update_condition_by_name_and_tag"
  /\ result.args.name = <<"m">>
  /\ result.args.detector_id = <<"A">>
  /\ result.err = "NotFound"
  /\ TotalConds(wrappers) > 0

(***************************************************************************)
(* C28: after a successful add_condition the detector holds, under the     *)
(* stripped name and tag, one condition with the values and type passed    *)
(* and the three timestamps in whole seconds; it holds the same condition  *)
(* until an update of that name and tag or the removal of the detector or  *)
(* of an ancestor; a name and tag not added to a detector are not held by  *)
(* it; get_condition_by_name_and_tag returns the condition held, or null.  *)
(***************************************************************************)
C28_Stored(ws, q) ==
  {c \in UNION {Elems(d.conditions) :
                  d \in NodesAt(ws, split_detector_names(q.detector_id))} :
     c.name = sanitize_str(q.name) /\ c.tag = sanitize_str(q.tag)}

C28_SameKey(a, q) ==
  /\ a.detector_id = q.detector_id
  /\ sanitize_str(a.name) = sanitize_str(q.name)
  /\ sanitize_str(a.tag) = sanitize_str(q.tag)

C28_Touches(q) ==
  \/ /\ result'.op = "update_condition_by_name_and_tag"
     /\ C28_SameKey(result'.args, q)
  \/ /\ result'.op = "remove_detector"
     /\ IsPrefix(split_detector_names(result'.args[1]),
                 split_detector_names(q.detector_id))

C28_Adds(q) ==
  /\ result'.op = "add_condition"
  /\ result'.outcome = "ok"
  /\ C28_SameKey(result'.args, q)

C28_Step ==
  /\ (result'.op = "add_condition" /\ result'.outcome = "ok") =>
       LET a == result'.args
       IN C28_Stored(wrappers', a) =
            {Condition(sanitize_str(a.name), sanitize_str(a.tag), a.values,
                       a.type, TimeOf(a.collected_at), TimeOf(a.valid_since),
                       TimeOf(a.valid_until))}
  /\ \A q \in TripQueryArgs :
       /\ (C28_Stored(wrappers, q) # {} /\ ~C28_Touches(q)) =>
            C28_Stored(wrappers', q) = C28_Stored(wrappers, q)
       /\ (C28_Stored(wrappers, q) = {} /\ ~C28_Adds(q)) =>
            C28_Stored(wrappers', q) = {}
  /\ result'.op = "get_condition_by_name_and_tag" =>
       LET q == result'.args
       IN IF NodesAt(wrappers', split_detector_names(q.detector_id)) = {}
            THEN result'.outcome = "ValueError" /\ result'.err = "NotFound"
            ELSE /\ result'.outcome = "ok"
                 /\ IF C28_Stored(wrappers', q) = {}
                      THEN result'.value = <<>>
                      ELSE C28_Stored(wrappers', q) = {result'.value[1]}

\* C28: a condition added is returned by get_condition_by_name_and_tag with
\* its values and type, stripped name and tag and whole-second timestamps,
\* until it is updated or its detector removed, and null is returned for a
\* name and tag the detector does not hold
C28_RoundTrip == [][C28_Step]_vars

\* the condition added as (' n', 't') with a datetime carrying microseconds
\* and since left alone is read back as ('n', 't') from the child B, while
\* the root holds none
C28_Witness ==
  /\ result.op = "get_condition_by_name_and_tag"
  /\ result.args.detector_id = <<"A", SL, "B">>
  /\ result.args.name = <<SP, "n">>
  /\ result.outcome = "ok"
  /\ result.value # <<>>
  /\ result.value[1].name = <<"n">>
  /\ result.value[1].type = <<"c">>
  /\ result.value[1].valid_until = <<2020, 12, 31, 0, 0, 0>>
  /\ C28_Stored(wrappers, [detector_id |-> <<"A">>, name |-> <<"n">>, tag |-> <<"t">>]) = {}

C28_WitnessNull ==
  /\ result.op = "get_condition_by_name_and_tag"
  /\ result.args.name = <<"m">>
  /\ result.outcome = "ok"
  /\ result.value = <<>>
  /\ TotalConds(wrappers) > 0

(***************************************************************************)
(* C29 as claimed: for an existing detector get_conditions_by_name(path,   *)
(* n) returns the conditions of get_conditions(path) whose name is n, in   *)
(* their order, and get_conditions_by_tag(path, t) those whose tag is t,   *)
(* null when there are none; for a path that does not exist both fail with *)
(* NotFound.                                                               *)
(***************************************************************************)
C29_Field(c) ==
  IF result.op = "get_conditions_by_name" THEN c.name ELSE c.tag

C29_WithName(c) == C29_Field(c) = result.args[2]

C29_WithStrippedName(c) == C29_Field(c) = sanitize_str(result.args[2])

C29_Filters(Test(_)) ==
  result.op \in {"get_conditions_by_name", "get_conditions_by_tag"} =>
    LET all == get_conditions(wrappers, result.args[1])
    IN IF NodesAt(wrappers, split_detector_names(result.args[1])) = {}
         THEN result.outcome = "ValueError" /\ result.err = "NotFound"
         ELSE /\ all.outcome = "ok"
              /\ result.outcome = "ok"
              /\ result.value = SelectSeq(all.value, Test)

C29_FiltersAsStated == C29_Filters(C29_WithName)

\* C29: get_conditions_by_name and get_conditions_by_tag return the
\* conditions of get_conditions whose name, or tag, is the argument stripped
\* of surrounding whitespace, in their order, null when there are none, and
\* fail with NotFound for a path that does not exist
C29_FiltersOfGetConditions == C29_Filters(C29_WithStrippedName)

\* a filter by name, asked with trailing whitespace, that returns the second
\* of the two conditions of the detector
C29_Witness ==
  /\ result.op = "get_conditions_by_name"
  /\ result.args[2] = <<"n", SP>>
  /\ result.outcome = "ok"
  /\ Len(result.value) = 1
  /\ Len(get_conditions(wrappers, result.args[1]).value) = 2
  /\ get_conditions(wrappers, result.args[1]).value[2] = result.value[1]

C29_WitnessTag ==
  /\ result.op = "get_conditions_by_tag"
  /\ result.args = <<<<"A", SL, "B">>, <<SP, "u">>>>
  /\ result.outcome = "ok"
  /\ Len(result.value) = 1
  /\ Len(get_conditions(wrappers, result.args[1]).value) = 2

C29_WitnessNull ==
  /\ result.op = "get_conditions_by_tag"
  /\ result.outcome = "ok"
  /\ result.value = <<>>
  /\ get_conditions(wrappers, result.args[1]).value # <<>>

C29_WitnessNotFound ==
  /\ result.op = "get_conditions_by_name"
  /\ result.err = "NotFound"
  /\ wrappers # <<>>

(***************************************************************************)
(* C30 as claimed: a successful add_condition whose collected_at,          *)
(* valid_since and valid_until are left out stores the time of the call,   *)
(* in whole seconds, as collected_at and valid_since and the maximum time  *)
(* as valid_until.                                                         *)
(***************************************************************************)
C30_OmittedAdd ==
  /\ result'.op = "add_condition"
  /\ result'.outcome = "ok"
  /\ result'.args.collected_at = Omitted
  /\ result'.args.valid_since = Omitted
  /\ wrappers' # wrappers

C30_Added ==
  C28_Stored(wrappers', result'.args) \ C28_Stored(wrappers, result'.args)

C30_Step ==
  C30_OmittedAdd =>
    \E c \in C30_Added :
      /\ c.collected_at = ClockTime(now)
      /\ c.valid_since = ClockTime(now)
      /\ c.valid_until = TimeOf(DateTimeMax)

\* C30: add_condition without collected_at and valid_since stores the time
\* of the call, so that calls made at different seconds store different
\* times, and valid_until defaults to the maximum time
C30_DefaultsAreCallTime == [][C30_Step]_vars

C30_StepImport ==
  C30_OmittedAdd =>
    \E c \in C30_Added :
      /\ c.collected_at = ClockTime(ImportSecond)
      /\ c.valid_since = ClockTime(ImportSecond)
      /\ c.valid_until = TimeOf(DateTimeMax)

\* what the calls store: the time the module was imported at
C30_DefaultsAreImportTime == [][C30_StepImport]_vars

\* two conditions added at different seconds that carry the same times
C30_SameTimes ==
  /\ result.op = "add_condition"
  /\ result.outcome = "ok"
  /\ now > ImportSecond
  /\ \E d \in AllDetectors(wrappers) :
       /\ Len(d.conditions) = 2
       /\ d.conditions[1].collected_at = d.conditions[2].collected_at
       /\ d.conditions[1].valid_since = d.conditions[2].valid_since

====
